---------------------------- MODULE Spec2Model ----------------------------
(***************************************************************************)
(* Verification model of the URL normalisation-and-merge engine of the     *)
(* Auto APK Analyzer (src/src/mapping/url_mapper.py and                    *)
(* src/src/utils/url_normalizer.py).                                       *)
(*                                                                         *)
(* Python strings are modelled as sequences of one-character strings, so   *)
(* that parsing, substring tests and replacement are computed character by *)
(* character as the library computes them.  The URLs of the model contain  *)
(* only printable ASCII characters (no whitespace or control characters),  *)
(* so the stripping of such characters by urlsplit is the identity here.   *)
(***************************************************************************)
EXTENDS Integers, Sequences, FiniteSets, TLC

(***************************************************************************)
(* Strings                                                                 *)
(***************************************************************************)
LowerAlpha ==
  <<"a","b","c","d","e","f","g","h","i","j","k","l","m",
    "n","o","p","q","r","s","t","u","v","w","x","y","z">>

UpperAlpha ==
  <<"A","B","C","D","E","F","G","H","I","J","K","L","M",
    "N","O","P","Q","R","S","T","U","V","W","X","Y","Z">>

Digits == {"0","1","2","3","4","5","6","7","8","9"}

Range(s) == { s[i] : i \in DOMAIN s }

LowerLetters == Range(LowerAlpha)

UpperLetters == Range(UpperAlpha)

isalpha(c) == c \in LowerLetters \/ c \in UpperLetters

\* str.lower() on one character
lowerChar(c) ==
  IF c \in UpperLetters
    THEN LowerAlpha[CHOOSE i \in DOMAIN UpperAlpha : UpperAlpha[i] = c]
    ELSE c

\* str.lower()
lower(s) == [ i \in DOMAIN s |-> lowerChar(s[i]) ]

SetMin(S) == CHOOSE x \in S : \A y \in S : x <= y

SetMax(S) == CHOOSE x \in S : \A y \in S : x >= y

\* s[i:] with the 1-based index of the first kept character
From(s, i) == SubSeq(s, i, Len(s))

\* s[:i] with the 1-based index of the first dropped character
Before(s, i) == SubSeq(s, 1, i - 1)

\* the least index of a set of hits, 0 (Python's -1) when there is none
FirstOr0(hits) == IF hits = {} THEN 0 ELSE SetMin(hits)

\* the greatest index of a set of hits, 0 when there is none
LastOr0(hits) == IF hits = {} THEN 0 ELSE SetMax(hits)

\* sub occurs in s at the 1-based position i
MatchAt(s, sub, i) == \A j \in 1 .. Len(sub) : s[i + j - 1] = sub[j]

\* str.find(sub, start): 1-based index of the first occurrence of sub in s
\* at or after position start; 0 when there is none (Python's -1).
find(s, sub, start) ==
  FirstOr0({ i \in start .. (Len(s) - Len(sub) + 1) : MatchAt(s, sub, i) })

\* str.rfind(sub): 1-based index of the last occurrence, 0 when none.
rfind(s, sub) ==
  LastOr0({ i \in 1 .. (Len(s) - Len(sub) + 1) : MatchAt(s, sub, i) })

\* the Python test  sub in s
contains(s, sub) == \E i \in 1 .. (Len(s) - Len(sub) + 1) : MatchAt(s, sub, i)

RECURSIVE interleave(_, _)
\* "abc".replace("", new): new before every character and at the end
interleave(s, new) ==
  IF s = <<>> THEN new ELSE new \o <<Head(s)>> \o interleave(Tail(s), new)

RECURSIVE replace(_, _, _)
\* str.replace for a non-empty old whose first occurrence in s is at i
\* (0 when there is none)
replace_from(s, old, new, i) ==
  IF i = 0 THEN s
  ELSE Before(s, i) \o new \o replace(From(s, i + Len(old)), old, new)

\* str.replace(old, new): every non-overlapping occurrence, left to right
replace(s, old, new) ==
  IF old = <<>> THEN interleave(s, new)
  ELSE replace_from(s, old, new, find(s, old, 1))

\* str.rstrip(c) for a single character c
RECURSIVE rstrip(_, _)
rstrip(s, c) ==
  IF s # <<>> /\ s[Len(s)] = c THEN rstrip(Before(s, Len(s)), c) ELSE s

(***************************************************************************)
(* urllib.parse.urlparse (CPython 3.11), as used at url_mapper.py:24 and   *)
(* url_normalizer.py:23,59.  ok = FALSE stands for the ValueError that     *)
(* urlsplit raises for a netloc with an unbalanced square bracket.         *)
(***************************************************************************)
scheme_chars == LowerLetters \cup UpperLetters \cup Digits \cup {"+", "-", "."}

uses_params ==
  { <<>>, <<"f","t","p">>, <<"h","d","l">>, <<"p","r","o","s","p","e","r","o">>,
    <<"h","t","t","p">>, <<"i","m","a","p">>, <<"h","t","t","p","s">>,
    <<"s","h","t","t","p">>, <<"r","t","s","p">>, <<"r","t","s","p","u">>,
    <<"s","i","p">>, <<"s","i","p","s">>, <<"m","m","s">>,
    <<"s","f","t","p">>, <<"t","e","l">> }

\* the netloc that ends before position delim, and what follows it
netloc_until(url, delim) ==
  [ netloc |-> SubSeq(url, 3, delim - 1), rest |-> From(url, delim) ]

\* _splitnetloc(url, 2): the netloc ends at the first of / ? #
splitnetloc(url) ==
  netloc_until(url,
    FirstOr0({ i \in 3 .. Len(url) : url[i] \in {"/", "?", "#"} }
             \cup {Len(url) + 1}))

\* the split of _splitparams at the first ; found at i (0 when none)
params_at(url, i) ==
  IF i = 0 THEN [ url |-> url, params |-> <<>> ]
  ELSE [ url |-> Before(url, i), params |-> From(url, i + 1) ]

\* the ; is looked for after the last / when the path has one
params_after(url, slash) ==
  params_at(url, IF slash # 0 THEN find(url, <<";">>, slash)
                 ELSE find(url, <<";">>, 1))

\* _splitparams(url)
splitparams(url) == params_after(url, rfind(url, <<"/">>))

\* the ParseResult tuple; sp is the path with its parameters split off
ParseResult(ok, scheme, netloc, sp, query, fragment) ==
  [ ok       |-> ok,
    scheme   |-> scheme,
    netloc   |-> netloc,
    path     |-> sp.url,
    params   |-> sp.params,
    query    |-> query,
    fragment |-> fragment ]

\* urlparse: the parameters of the last path segment, for the schemes of
\* uses_params only
urlparse_params(ok, scheme, netloc, url, query, fragment) ==
  ParseResult(ok, scheme, netloc,
              IF scheme \in uses_params /\ contains(url, <<";">>)
                THEN splitparams(url)
                ELSE [ url |-> url, params |-> <<>> ],
              query, fragment)

\* urlsplit: the query starts at the first ? found at qm (0 when none)
urlsplit_query(ok, scheme, netloc, url, fragment, qm) ==
  urlparse_params(ok, scheme, netloc,
                  IF qm # 0 THEN Before(url, qm) ELSE url,
                  IF qm # 0 THEN From(url, qm + 1) ELSE <<>>,
                  fragment)

\* what is left of url once the fragment starting at hash is cut off
urlsplit_defrag(ok, scheme, netloc, url, fragment) ==
  urlsplit_query(ok, scheme, netloc, url, fragment, find(url, <<"?">>, 1))

\* urlsplit: the fragment starts at the first # found at hash (0 when none)
urlsplit_fragment(ok, scheme, netloc, url, hash) ==
  urlsplit_defrag(ok, scheme, netloc,
                  IF hash # 0 THEN Before(url, hash) ELSE url,
                  IF hash # 0 THEN From(url, hash + 1) ELSE <<>>)

\* urlsplit: ValueError("Invalid IPv6 URL") for a netloc with one square
\* bracket but not the other
urlsplit_brackets(scheme, netloc, url) ==
  urlsplit_fragment(~ (\/ contains(netloc, <<"[">>) /\ ~ contains(netloc, <<"]">>)
                       \/ contains(netloc, <<"]">>) /\ ~ contains(netloc, <<"[">>)),
                    scheme, netloc, url, find(url, <<"#">>, 1))

\* the netloc and the rest, from the record that splitnetloc gives
urlsplit_after_netloc(scheme, nl) == urlsplit_brackets(scheme, nl.netloc, nl.rest)

\* urlsplit: a netloc is read only after a leading //
urlsplit_netloc(scheme, url) ==
  IF Len(url) >= 2 /\ url[1] = "/" /\ url[2] = "/"
    THEN urlsplit_after_netloc(scheme, splitnetloc(url))
    ELSE urlsplit_brackets(scheme, <<>>, url)

\* urlsplit: the scheme is what precedes the first colon, found at colon,
\* when it starts with a letter and holds scheme characters only
urlsplit_scheme(url, colon) ==
  IF /\ colon > 1
     /\ isalpha(url[1])
     /\ \A k \in 1 .. (colon - 1) : url[k] \in scheme_chars
    THEN urlsplit_netloc(lower(Before(url, colon)), From(url, colon + 1))
    ELSE urlsplit_netloc(<<>>, url)

urlparse(url) == urlsplit_scheme(url, find(url, <<":">>, 1))


(***************************************************************************)
(* urllib.parse.urlunparse (CPython 3.11), as used at                      *)
(* url_normalizer.py:41,95                                                 *)
(***************************************************************************)
uses_netloc ==
  { <<>>, <<"f","t","p">>, <<"h","t","t","p">>, <<"g","o","p","h","e","r">>,
    <<"n","n","t","p">>, <<"t","e","l","n","e","t">>, <<"i","m","a","p">>,
    <<"w","a","i","s">>, <<"f","i","l","e">>, <<"m","m","s">>,
    <<"h","t","t","p","s">>, <<"s","h","t","t","p">>,
    <<"s","n","e","w","s">>, <<"p","r","o","s","p","e","r","o">>,
    <<"r","t","s","p">>, <<"r","t","s","p","s">>, <<"r","t","s","p","u">>,
    <<"r","s","y","n","c">>, <<"s","v","n">>,
    <<"s","v","n","+","s","s","h">>, <<"s","f","t","p">>, <<"n","f","s">>,
    <<"g","i","t">>, <<"g","i","t","+","s","s","h">>, <<"w","s">>,
    <<"w","s","s">> }

\* urlunsplit: the query and the fragment appended when they are not empty
urlunsplit_tail(url, query, fragment) ==
  url \o (IF query # <<>> THEN <<"?">> \o query ELSE <<>>)
      \o (IF fragment # <<>> THEN <<"#">> \o fragment ELSE <<>>)

\* urlunsplit: the scheme and a colon put in front when there is a scheme
urlunsplit_scheme(scheme, url, query, fragment) ==
  urlunsplit_tail(IF scheme # <<>> THEN scheme \o <<":">> \o url ELSE url,
                  query, fragment)

\* urlunsplit
urlunsplit(scheme, netloc, url, query, fragment) ==
  IF \/ netloc # <<>>
     \/ /\ scheme # <<>>
        /\ scheme \in uses_netloc
        /\ ~ (Len(url) >= 2 /\ url[1] = "/" /\ url[2] = "/")
    THEN urlunsplit_scheme(scheme,
           <<"/","/">> \o netloc
             \o (IF url # <<>> /\ url[1] # "/" THEN <<"/">> ELSE <<>>) \o url,
           query, fragment)
    ELSE urlunsplit_scheme(scheme, url, query, fragment)

\* urlunparse
urlunparse(scheme, netloc, url, params, query, fragment) ==
  urlunsplit(scheme, netloc,
             IF params # <<>> THEN url \o <<";">> \o params ELSE url,
             query, fragment)

(***************************************************************************)
(* normalize_url, url_normalizer.py:11-46                                  *)
(***************************************************************************)
\* lines 25-41 for the parsed URL
normalize_parsed(parsed) ==
  urlunparse(IF parsed.scheme # <<>> THEN lower(parsed.scheme) ELSE <<>>,
             IF parsed.netloc # <<>> THEN rstrip(lower(parsed.netloc), ".") ELSE <<>>,
             IF parsed.path # <<>> /\ parsed.path # <<"/">>
               THEN rstrip(parsed.path, "/") ELSE parsed.path,
             parsed.params, parsed.query, parsed.fragment)

\* lines 21-46: the URL itself comes back when urlparse raised
normalize_or_url(parsed, url) == IF parsed.ok THEN normalize_parsed(parsed) ELSE url

normalize_url(url) == normalize_or_url(urlparse(url), url)

(***************************************************************************)
(* Bounds and input pools                                                  *)
(***************************************************************************)
\* number of observations (static records, flows, providers) of one scan
MaxObs == 2

\* largest value the clock read by time.time() takes
MaxClock == 1

\* number of entries of a catalog handed to compare_url_maps
MaxEntries == 2

Https == <<"h","t","t","p","s">>

Http == <<"h","t","t","p">>

ApiHost == <<"a","p","i",".","e","x","a","m","p","l","e",".","c","o","m">>

ProviderUri ==
  <<"c","o","m",".","e","x","a","m","p","l","e",".","a","p","p",".",
    "p","r","o","v","i","d","e","r">>

LoginPath == <<"/","v","1","/","l","o","g","i","n">>

UsersPath == <<"/","v","1","/","u","s","e","r","s","/","1","2","3">>

QueryX == <<"?","x","=","1">>

Url(scheme, host, path, suffix) == scheme \o <<":","/","/">> \o host \o path \o suffix

\* the URLs observed: the login URL, and the users URL with and without a
\* query string and under both schemes
Urls ==
  { Url(Https, ApiHost, LoginPath, <<>>),
    Url(Https, ApiHost, UsersPath, <<>>),
    Url(Https, ApiHost, UsersPath, QueryX),
    Url(Http, ApiHost, UsersPath, QueryX) }

NumericParam == [ type |-> "numeric_id", value |-> <<"1","2","3">> ]

AlnumParam == [ type |-> "alphanumeric_id", value |-> <<"a","d","m","i","n">> ]

ParamLists == { <<>>, <<NumericParam>>, <<AlnumParam>> }

\* a netloc with an opening square bracket and no closing one
MalformedUrl == <<"h","t","t","p",":","/","/","[","h","/">>

UsersListPath == <<"/","v","1","/","u","s","e","r","s">>

\* the users URL with its host in another letter case, with a dot after the
\* host and with a slash after the path; two users URLs with an all-digit
\* segment between slashes; a URL that urlparse rejects
VariantUrls ==
  { Url(Https, ApiHost, UsersListPath, << >>),
    Url(Https, <<"A","P","I",".","E","x","a","m","p","l","e",".","c","o","m">>, UsersListPath, << >>),
    Url(Https, ApiHost \o <<".">>, UsersListPath, << >>),
    Url(Https, ApiHost, UsersListPath \o <<"/">>, << >>),
    Url(Https, ApiHost, UsersPath \o <<"/">>, << >>),
    Url(Https, ApiHost, <<"/","v","1","/","u","s","e","r","s","/","4","5","6","/">>, << >>),
    MalformedUrl }

VariantRecords ==
  { [ url |-> u, parameters |-> ps ] :
      u \in VariantUrls, ps \in { << >>, << NumericParam >> } }

VariantFlows == { [ url |-> u, method |-> "GET" ] : u \in VariantUrls }

VariantProviders == { [ uri |-> ProviderUri, accessible |-> a ] : a \in BOOLEAN }

\* records of static_results['urls']
StaticRecords == { [ url |-> u, parameters |-> ps ] : u \in Urls, ps \in ParamLists }

\* flows of dynamic_results; a flow without 'method' reads as UNKNOWN (line 115)
Flows == { [ url |-> u, method |-> m ] : u \in Urls, m \in { "UNKNOWN", "POST" } }

\* records of component_results['providers']; a record without 'accessible'
\* reads as accessible = FALSE, one without 'uri' as the empty uri (lines 138-139)
Providers ==
  { [ uri |-> u, accessible |-> a ] :
      u \in { <<>>, ProviderUri, ApiHost \o LoginPath }, a \in BOOLEAN }

(***************************************************************************)
(* create_url_mapping_entry                                                *)
(***************************************************************************)
Uuid == <<"{","u","u","i","d","}">>

Id == <<"{","i","d","}">>

Param == <<"{","p","a","r","a","m","}">>

risk_indicators ==
  << <<"a","d","m","i","n">>, <<"l","o","g","i","n">>, <<"a","u","t","h">>,
     <<"t","o","k","e","n">>, <<"p","a","s","s","w","o","r","d">>,
     <<"s","e","c","r","e","t">>, <<"k","e","y">>, <<"c","o","n","f","i","g">>,
     <<"d","e","b","u","g">>, <<"t","e","s","t">>, <<"d","e","v">> >>

risk_levels == [ r \in { "LOW", "MEDIUM", "HIGH" } |->
                   IF r = "LOW" THEN 1 ELSE IF r = "MEDIUM" THEN 2 ELSE 3 ]

\* lines 35-39: one parameter value replaced by the placeholder of its type
substitute_one(path, param) ==
  IF param.type = "uuid" THEN replace(path, param.value, Uuid)
  ELSE IF param.type = "numeric_id" THEN replace(path, param.value, Id)
  ELSE IF param.type = "alphanumeric_id" THEN replace(path, param.value, Param)
  ELSE path

RECURSIVE substitute(_, _)
\* lines 33-39: the values of the attached parameters replaced in the path,
\* one parameter after the other
substitute(path, parameters) ==
  IF parameters = <<>> THEN path
  ELSE substitute(substitute_one(path, Head(parameters)), Tail(parameters))

\* inUrl and inParam are the indicators found in the URL and in a parameter
\* value; the first indicator found decides
risk_of(inUrl, inParam) ==
  IF inUrl \cup inParam = {} THEN "LOW"
  ELSE IF SetMin(inUrl \cup inParam) \in inUrl THEN "HIGH" ELSE "MEDIUM"

\* lowered is url.lower() and values the lowered parameter values
risk_in(lowered, values) ==
  risk_of({ k \in DOMAIN risk_indicators : contains(lowered, risk_indicators[k]) },
          { k \in DOMAIN risk_indicators :
              \E j \in DOMAIN values : contains(values[j], risk_indicators[k]) })

\* lines 41-54: the indicators are tried in list order; the first one found
\* in the URL gives HIGH, the first one found in a parameter value MEDIUM
classify_risk(url, parameters) ==
  risk_in(lower(url),
          [ j \in DOMAIN parameters |-> lower(parameters[j].value) ])

\* lines 56-68: the entry; t1 and t2 are the two readings of time.time()
\* of lines 65 and 66
mapping_entry(netloc, normalized_path, url, method, source, parameters, t1, t2) ==
  [ signature     |-> netloc \o normalized_path,
    host          |-> netloc,
    path          |-> normalized_path,
    method        |-> method,
    parameters    |-> parameters,
    sources       |-> << source >>,
    original_urls |-> << url >>,
    risk_level    |-> classify_risk(url, parameters),
    first_seen    |-> t1,
    last_seen     |-> t2,
    frequency     |-> 1 ]

\* normalized_entry with the scheme kept in the signature
normalized_entry_with_scheme(parsed, url, method, source, parameters, t1, t2) ==
  [ mapping_entry(parsed.netloc, substitute(parsed.path, parameters),
                  url, method, source, parameters, t1, t2)
      EXCEPT !.signature = parsed.scheme \o <<":","/","/">> \o @ ]

\* lines 27-39: the path of the parsed URL with the parameter values replaced
normalized_entry(parsed, url, method, source, parameters, t1, t2) ==
  mapping_entry(parsed.netloc, substitute(parsed.path, parameters),
                url, method, source, parameters, t1, t2)

\* line 24: the URL is parsed first
create_url_mapping_entry(url, method, source, parameters, t1, t2) ==
  normalized_entry(urlparse(url), url, method, source, parameters, t1, t2)

ContentScheme == <<"c","o","n","t","e","n","t",":","/","/">>

\* every URL handed to create_url_mapping_entry
ObservedUrls ==
  Urls \cup VariantUrls \cup { ContentScheme \o p.uri : p \in Providers }

\* urlparse(url) returns (TRUE) or raises ValueError (FALSE), for every URL
\* of the pools
parses == [ u \in ObservedUrls |-> urlparse(u).ok ]

\* create_url_mapping_entry with the defaults of line 11, computed once for
\* every URL and parameter list of the pools
created ==
  [ u \in ObservedUrls |->
      [ ps \in ParamLists |-> create_url_mapping_entry(u, "UNKNOWN", "unknown", ps, 0, 0) ] ]

\* create_url_mapping_entry(url, method, source, parameters, t1, t2) read from
\* the table: method, source and the two clock readings go into the entry
\* as they are (lines 60, 62, 65, 66) and nothing else depends on them
url_mapping_entry(url, method, source, parameters, t1, t2) ==
  [ created[url][parameters] EXCEPT
      !.method     = method,
      !.sources    = << source >>,
      !.first_seen = t1,
      !.last_seen  = t2 ]

(***************************************************************************)
(* extract_path_parameters, url_normalizer.py:48-108                       *)
(***************************************************************************)
HexDigits == Digits \cup {"a","b","c","d","e","f"}

Alnum == LowerLetters \cup UpperLetters \cup Digits

\* line 90: the words that are never taken for a parameter
common_words ==
  { <<"a","p","i">>, <<"v","1">>,
    <<"v","2">>, <<"v","3">>,
    <<"u","s","e","r","s">>, <<"u","s","e","r">>,
    <<"p","r","o","d","u","c","t","s">>, <<"p","r","o","d","u","c","t">> }

\* the number of characters of s from position i on that all lie in class
run_len(s, i, class) ==
  SetMax({ n \in 0 .. (Len(s) - i + 1) : \A k \in 0 .. (n - 1) : s[i + k] \in class })

\* the length of the match of /class+/ at i, where s[i] is the first slash
\* and run the characters of class after it; 0 when there is no match
slashed_len(s, i, run) ==
  IF run > 0 /\ i + run + 1 <= Len(s) /\ s[i + run + 1] = "/" THEN run + 2 ELSE 0

\* the length of the match of the pattern of line 64, 66 or 68 at position i
\* of s, 0 when it does not match there
match_len(pattern, s, i) ==
  IF pattern = "uuid"
    THEN IF /\ i + 35 <= Len(s)
            /\ \A j \in 0 .. 35 :
                 IF j \in {8, 13, 18, 23} THEN s[i + j] = "-"
                 ELSE s[i + j] \in HexDigits
           THEN 36 ELSE 0
  ELSE IF s[i] # "/" THEN 0
  ELSE IF pattern = "numeric" THEN slashed_len(s, i, run_len(s, i + 1, Digits))
  ELSE slashed_len(s, i, run_len(s, i + 1, Alnum))

RECURSIVE findall_from(_, _, _)
\* re.findall resumes after a match of n characters found at i, one
\* character further when there was none
findall_next(pattern, s, i, n) ==
  IF n = 0 THEN findall_from(pattern, s, i + 1)
  ELSE << SubSeq(s, i, i + n - 1) >> \o findall_from(pattern, s, i + n)

\* re.findall(pattern, s) from position i on: the non-overlapping matches,
\* left to right
findall_from(pattern, s, i) ==
  IF i > Len(s) THEN << >> ELSE findall_next(pattern, s, i, match_len(pattern, s, i))

findall(pattern, s) == findall_from(pattern, s, 1)

RECURSIVE lstrip(_, _)
\* str.lstrip(c) for a single character c
lstrip(s, c) == IF s # << >> /\ s[1] = c THEN lstrip(Tail(s), c) ELSE s

\* str.strip(c)
strip(s, c) == rstrip(lstrip(s, c), c)

RECURSIVE extract_uuids(_, _)
\* lines 74-76: st holds path and parameters
extract_uuids(matches, st) ==
  IF matches = << >> THEN st
  ELSE extract_uuids(Tail(matches),
         [ path       |-> replace(st.path, Head(matches), Uuid),
           parameters |-> Append(st.parameters,
                                 [ type |-> "uuid", value |-> Head(matches) ]) ])

RECURSIVE extract_numeric(_, _)
\* extract_numeric recording the match with its two slashes (line 81 left out)
extract_numeric_unstripped(matches, st) ==
  IF matches = << >> THEN st
  ELSE extract_numeric(Tail(matches),
         [ path       |-> replace(st.path, Head(matches), <<"/">> \o Id \o <<"/">>),
           parameters |-> Append(st.parameters,
                                 [ type  |-> "numeric_id",
                                   value |-> Head(matches) ]) ])

\* lines 80-83
extract_numeric(matches, st) ==
  IF matches = << >> THEN st
  ELSE extract_numeric(Tail(matches),
         [ path       |-> replace(st.path, Head(matches), <<"/">> \o Id \o <<"/">>),
           parameters |-> Append(st.parameters,
                                 [ type  |-> "numeric_id",
                                   value |-> strip(Head(matches), "/") ]) ])

\* lines 90-92 for the value of one match
extract_value(param_value, st) ==
  IF lower(param_value) \in common_words THEN st
  ELSE [ path       |-> replace(st.path, <<"/">> \o param_value \o <<"/">>,
                                <<"/">> \o Param \o <<"/">>),
         parameters |-> Append(st.parameters,
                               [ type |-> "alphanumeric_id", value |-> param_value ]) ]

RECURSIVE extract_alphanumeric(_, _)
\* lines 87-92
extract_alphanumeric(matches, st) ==
  IF matches = << >> THEN st
  ELSE extract_alphanumeric(Tail(matches),
                            extract_value(strip(Head(matches), "/"), st))

\* lines 79-83: the numeric matches are looked for in the path the UUID
\* loop left
extract_after_uuids(st) == extract_numeric(findall("numeric", st.path), st)

\* lines 86-92: the alphanumeric matches are looked for in the path the
\* numeric loop left
extract_after_numeric(st) == extract_alphanumeric(findall("alphanumeric", st.path), st)

\* lines 60-92
extract_from_path(path) ==
  extract_after_numeric(extract_after_uuids(
    extract_uuids(findall("uuid", path), [ path |-> path, parameters |-> << >> ])))

\* lines 95-104
extract_result(parsed, st) ==
  [ url        |-> urlunparse(parsed.scheme, parsed.netloc, st.path,
                              parsed.params, parsed.query, parsed.fragment),
    parameters |-> st.parameters ]

\* lines 58-108: the URL itself and no parameter when urlparse raised
extract_or_url(parsed, url) ==
  IF parsed.ok THEN extract_result(parsed, extract_from_path(parsed.path))
  ELSE [ url |-> url, parameters |-> << >> ]

extract_path_parameters(url) == extract_or_url(urlparse(url), url)

(***************************************************************************)
(* State                                                                   *)
(*                                                                         *)
(* One run of generate_url_map / merge_static_dynamic_data.  The three     *)
(* input lists are revealed record by record, as the loops of lines 87,    *)
(* 113 and 137 read them: static_in, dynamic_results and providers hold    *)
(* the records read so far.                                                *)
(***************************************************************************)
VARIABLES
  pc,               \* the loop that ran last: "static", "dynamic",
                    \* "component"; "done" once generate_url_map returned,
                    \* "raised" once it ended with an exception
  static_in,        \* the records of static_results['urls'] as they were passed in
  static_urls,      \* the same record objects as they are now
  dynamic_results,  \* the flows read so far
  providers,        \* the provider records read so far
  merged_entries,   \* the dict of line 83 in insertion order: key, val (the
                    \* entry) and plist, the index in static_urls of the record
                    \* whose 'parameters' list object the entry holds (0: a
                    \* list of its own, line 61)
  url_map,          \* the value generate_url_map returns
  clock,            \* the last reading of time.time()
  old_map,          \* the arguments of compare_url_maps
  new_map,
  comparison,       \* the value compare_url_maps returns
  given_url,        \* the URL handed to normalize_url / extract_path_parameters
  normalized,       \* what normalize_url returned, applied to given_url and
                    \* then to its own result
  extracted,        \* what extract_path_parameters returned, applied to
                    \* given_url and then to the URL it returned
  static_results,   \* what merge_static_results returned for the tool result
                    \* that holds given_url
  static_map,       \* what generate_url_map made of static_results
  file,             \* the file at the path given to save_url_map / load_url_map
  saved,            \* the last call of save_url_map: its argument and outcome
  loaded,           \* the last call of load_url_map: its outcome
  tasks,            \* TaskManager.tasks: the Task of every task id
  tasks_file,       \* tasks.json in the workspace of the TaskManager
  last_call,        \* the last call made on the TaskManager
  calls             \* the number of calls made on the TaskManager

vars == << pc, static_in, static_urls, dynamic_results, providers,
           merged_entries, url_map, clock, old_map, new_map, comparison,
           given_url, normalized, extracted, static_results, static_map,
           file, saved, loaded, tasks, tasks_file, last_call, calls >>

utilVars == << given_url, normalized, extracted, static_results, static_map >>

taskVars == << tasks, tasks_file, last_call, calls >>

storeVars == << file, saved, loaded >>

differVars == << old_map, new_map, comparison >>

mergeVars == << pc, static_in, static_urls, dynamic_results, providers,
                merged_entries, url_map, clock >>

EmptyDist == [ x \in {} |-> 0 ]

NoMap ==
  [ entries  |-> <<>>,
    metadata |-> [ total_entries       |-> 0,
                   risk_distribution   |-> EmptyDist,
                   source_distribution |-> EmptyDist,
                   method_distribution |-> EmptyDist ] ]

NoCatalog == [ has_entries |-> FALSE, entries |-> <<>> ]

NoComparison ==
  [ called    |-> FALSE,
    added     |-> <<>>,
    removed   |-> <<>>,
    unchanged |-> <<>>,
    summary   |-> [ added_count |-> 0, removed_count |-> 0, unchanged_count |-> 0 ] ]

\* no file at the path
NoFile == [ exists |-> FALSE, text |-> << >> ]

NotSaved ==
  [ called |-> FALSE, raised |-> FALSE, result |-> FALSE, url_map |-> NoCatalog,
    fault |-> "none" ]

NotLoaded ==
  [ called |-> FALSE, raised |-> FALSE, none |-> FALSE, url_map |-> NoCatalog,
    source |-> NoFile ]

NotMerged == [ called |-> FALSE, urls |-> << >> ]

NotMapped == [ called |-> FALSE, raised |-> FALSE, entries |-> << >> ]

\* TaskManager() in a workspace without tasks.json (lines 165-172)
NoTasks == [ t \in {} |-> 0 ]

NoTasksFile == [ exists |-> FALSE, tasks |-> NoTasks ]

NoCall == [ op |-> "none", task_id |-> "None" ]

Init ==
  /\ pc = "static"
  /\ static_in = <<>>
  /\ static_urls = <<>>
  /\ dynamic_results = <<>>
  /\ providers = <<>>
  /\ merged_entries = <<>>
  /\ url_map = NoMap
  /\ clock = 0
  /\ old_map = NoCatalog
  /\ new_map = NoCatalog
  /\ comparison = NoComparison
  /\ given_url = << >>
  /\ normalized = << >>
  /\ extracted = << >>
  /\ static_results = NotMerged
  /\ static_map = NotMapped
  /\ file = NoFile
  /\ saved = NotSaved
  /\ loaded = NotLoaded
  /\ tasks = NoTasks
  /\ tasks_file = NoTasksFile
  /\ last_call = NoCall
  /\ calls = 0

NumObs == Len(static_in) + Len(dynamic_results) + Len(providers)

Max(a, b) == IF a >= b THEN a ELSE b

\* the readings time.time() can give after the reading t
Readings(t) == { u \in t .. (t + 1) : u <= MaxClock }

\* the dict keyed by the raw URL instead of the signature
signature_key_raw_url(url_entry) == url_entry.original_urls[1]

\* signature = url_entry['signature']  (lines 95, 123, 147): the dict key
signature_key(url_entry) == url_entry.signature

\* signature in merged_entries  (lines 96, 124, 148): the position of the
\* key in the dict, 0 when it is not a key
Slot(signature) ==
  IF \E i \in DOMAIN merged_entries : merged_entries[i].key = signature
    THEN CHOOSE i \in DOMAIN merged_entries : merged_entries[i].key = signature
    ELSE 0

\* merged_entries[signature] = url_entry  (lines 110, 133, 157)
DictSet(signature, url_entry, plist) ==
  LET item == [ key |-> signature, val |-> url_entry, plist |-> plist ]
  IN  IF Slot(signature) # 0
        THEN [ merged_entries EXCEPT ![Slot(signature)] = item ]
        ELSE Append(merged_entries, item)

\* merge_static taking the risk level of the new record, higher or not
merge_static_overwrite_risk(existing, url_entry) ==
  [ existing EXCEPT
      !.sources       = @ \o url_entry.sources,
      !.original_urls = @ \o url_entry.original_urls,
      !.parameters    = @ \o url_entry.parameters,
      !.frequency     = @ + url_entry.frequency,
      !.last_seen     = Max(@, url_entry.last_seen),
      !.risk_level    = url_entry.risk_level ]

\* lines 98-108: a static record merged into the entry of its signature
merge_static(existing, url_entry) ==
  [ existing EXCEPT
      !.sources       = @ \o url_entry.sources,
      !.original_urls = @ \o url_entry.original_urls,
      !.parameters    = @ \o url_entry.parameters,
      !.frequency     = @ + url_entry.frequency,
      !.last_seen     = Max(@, url_entry.last_seen),
      !.risk_level    = IF risk_levels[url_entry.risk_level] > risk_levels[@]
                          THEN url_entry.risk_level ELSE @ ]

\* merge_dynamic taking both timestamps of the new observation
merge_dynamic_reset_seen(existing, url_entry, method) ==
  [ existing EXCEPT
      !.sources       = @ \o url_entry.sources,
      !.original_urls = @ \o url_entry.original_urls,
      !.method        = IF method # "UNKNOWN" THEN method ELSE @,
      !.frequency     = @ + url_entry.frequency,
      !.first_seen    = url_entry.first_seen,
      !.last_seen     = url_entry.last_seen ]

\* merge_dynamic without the frequency update of line 130
merge_dynamic_no_count(existing, url_entry, method) ==
  [ existing EXCEPT
      !.sources       = @ \o url_entry.sources,
      !.original_urls = @ \o url_entry.original_urls,
      !.method        = IF method # "UNKNOWN" THEN method ELSE @,
      !.last_seen     = Max(@, url_entry.last_seen) ]

\* merge_dynamic without the method update of line 129
merge_dynamic_keep_method(existing, url_entry, method) ==
  [ existing EXCEPT
      !.sources       = @ \o url_entry.sources,
      !.original_urls = @ \o url_entry.original_urls,
      !.frequency     = @ + url_entry.frequency,
      !.last_seen     = Max(@, url_entry.last_seen) ]

\* merge_dynamic taking the method of the flow, UNKNOWN or not
merge_dynamic_any_method(existing, url_entry, method) ==
  [ existing EXCEPT
      !.sources       = @ \o url_entry.sources,
      !.original_urls = @ \o url_entry.original_urls,
      !.method        = method,
      !.frequency     = @ + url_entry.frequency,
      !.last_seen     = Max(@, url_entry.last_seen) ]

\* merge_dynamic keeping only the URL of the last flow
merge_dynamic_last_url(existing, url_entry, method) ==
  [ existing EXCEPT
      !.sources       = @ \o url_entry.sources,
      !.original_urls = url_entry.original_urls,
      !.method        = IF method # "UNKNOWN" THEN method ELSE @,
      !.frequency     = @ + url_entry.frequency,
      !.last_seen     = Max(@, url_entry.last_seen) ]

\* lines 126-131: a flow merged into the entry of its signature
merge_dynamic(existing, url_entry, method) ==
  [ existing EXCEPT
      !.sources       = @ \o url_entry.sources,
      !.original_urls = @ \o url_entry.original_urls,
      !.method        = IF method # "UNKNOWN" THEN method ELSE @,
      !.frequency     = @ + url_entry.frequency,
      !.last_seen     = Max(@, url_entry.last_seen) ]

\* merge_component without the method update of line 153
merge_component_keep_method(existing, url_entry) ==
  [ existing EXCEPT
      !.sources       = @ \o url_entry.sources,
      !.original_urls = @ \o url_entry.original_urls,
      !.frequency     = @ + url_entry.frequency,
      !.last_seen     = Max(@, url_entry.last_seen) ]

\* lines 150-155: an accessible provider merged into the entry of its signature
merge_component(existing, url_entry) ==
  [ existing EXCEPT
      !.sources       = @ \o url_entry.sources,
      !.original_urls = @ \o url_entry.original_urls,
      !.method        = "CONTENT_PROVIDER",
      !.frequency     = @ + url_entry.frequency,
      !.last_seen     = Max(@, url_entry.last_seen) ]

(***************************************************************************)
(* merge_static_dynamic_data, one loop iteration per action                *)
(***************************************************************************)
\* every provider record with a uri ingested, accessible or not
Ingested_any_flag(provider) == provider.uri # <<>>

\* the provider record is ingested (lines 138-140)
Ingested(provider) == provider.accessible /\ provider.uri # <<>>

\* lines 87-110, for the next record of static_results['urls'].  The
\* ValueError of urlparse (line 24) is caught nowhere: it ends
\* merge_static_dynamic_data and generate_url_map.
StaticStep(entry) ==
  /\ pc = "static"
  /\ NumObs < MaxObs
  /\ static_in' = Append(static_in, entry)
  /\ IF parses[entry.url]
       THEN \E t1 \in Readings(clock) : \E t2 \in Readings(t1) :
              LET url_entry == url_mapping_entry(entry.url, "UNKNOWN", "static",
                                                 entry.parameters, t1, t2)
                  signature == signature_key(url_entry)
                  i         == Slot(signature)
                  n         == Len(static_urls) + 1
              IN  /\ clock' = t2
                  /\ pc' = pc
                  /\ IF i # 0
                       THEN LET existing == merge_static(merged_entries[i].val, url_entry)
                                k        == merged_entries[i].plist
                            IN  /\ merged_entries' =
                                     [ merged_entries EXCEPT ![i].val = existing ]
                                /\ static_urls' =
                                     Append(IF k # 0
                                              THEN [ static_urls EXCEPT
                                                       ![k].parameters = existing.parameters ]
                                              ELSE static_urls,
                                            entry)
                       ELSE /\ merged_entries' =
                                 DictSet(signature, url_entry,
                                         IF entry.parameters # <<>> THEN n ELSE 0)
                            /\ static_urls' = Append(static_urls, entry)
       ELSE /\ pc' = "raised"
            /\ static_urls' = Append(static_urls, entry)
            /\ UNCHANGED << merged_entries, clock >>
  /\ UNCHANGED << dynamic_results, providers, url_map >>
  /\ UNCHANGED differVars
  /\ UNCHANGED utilVars
  /\ UNCHANGED storeVars
  /\ UNCHANGED taskVars

\* lines 113-133, for the next flow of dynamic_results
DynamicStep(flow) ==
  /\ pc \in { "static", "dynamic" }
  /\ NumObs < MaxObs
  /\ dynamic_results' = Append(dynamic_results, flow)
  /\ IF parses[flow.url]
       THEN \E t1 \in Readings(clock) : \E t2 \in Readings(t1) :
              LET url       == flow.url
                  method    == flow.method
                  url_entry == url_mapping_entry(url, method, "dynamic", <<>>, t1, t2)
                  signature == signature_key(url_entry)
                  i         == Slot(signature)
              IN  /\ clock' = t2
                  /\ pc' = "dynamic"
                  /\ IF i # 0
                       THEN merged_entries' =
                              [ merged_entries EXCEPT
                                  ![i].val = merge_dynamic(@, url_entry, method) ]
                       ELSE merged_entries' = DictSet(signature, url_entry, 0)
       ELSE /\ pc' = "raised"
            /\ UNCHANGED << merged_entries, clock >>
  /\ UNCHANGED << static_in, static_urls, providers, url_map >>
  /\ UNCHANGED differVars
  /\ UNCHANGED utilVars
  /\ UNCHANGED storeVars
  /\ UNCHANGED taskVars

\* lines 137-157, for the next record of component_results['providers']
ComponentStep(provider) ==
  /\ pc \in { "static", "dynamic", "component" }
  /\ NumObs < MaxObs
  /\ providers' = Append(providers, provider)
  /\ IF ~ Ingested(provider)
       THEN /\ pc' = "component"
            /\ UNCHANGED << merged_entries, clock >>
       ELSE IF parses[ContentScheme \o provider.uri]
       THEN \E t1 \in Readings(clock) : \E t2 \in Readings(t1) :
              LET url_entry == url_mapping_entry(ContentScheme \o provider.uri,
                                                 "CONTENT_PROVIDER", "component",
                                                 <<>>, t1, t2)
                  signature == signature_key(url_entry)
                  i         == Slot(signature)
              IN  /\ clock' = t2
                  /\ pc' = "component"
                  /\ IF i # 0
                       THEN merged_entries' =
                              [ merged_entries EXCEPT
                                  ![i].val = merge_component(@, url_entry) ]
                       ELSE merged_entries' = DictSet(signature, url_entry, 0)
       ELSE /\ pc' = "raised"
            /\ UNCHANGED << merged_entries, clock >>
  /\ UNCHANGED << static_in, static_urls, dynamic_results, url_map >>
  /\ UNCHANGED differVars
  /\ UNCHANGED utilVars
  /\ UNCHANGED storeVars
  /\ UNCHANGED taskVars

\* list(set(xs)): the distinct elements of xs, in whatever order the set
\* iterates (string hashing is randomised per process)
ListOfSet(S) == { l \in [ 1 .. Cardinality(S) -> S ] : Range(l) = S }

\* only the sources made distinct (line 162 left out)
Dedup_sources_only(entry) ==
  { [ entry EXCEPT !.sources = x ] : x \in ListOfSet(Range(entry.sources)) }

\* the entry returned with its lists as accumulated
Dedup_skipped(entry) == { entry }

\* lines 160-162 for one entry
Dedup(entry) ==
  { [ entry EXCEPT !.sources = s, !.original_urls = o ] :
      s \in ListOfSet(Range(entry.sources)),
      o \in ListOfSet(Range(entry.original_urls)) }

RECURSIVE DedupAll(_)
\* lines 160-165: list(merged_entries.values()) after the loop of line 160,
\* for the first n entries
DedupAll(n) ==
  IF n = 0 THEN { <<>> }
  ELSE { Append(es, e) : es \in DedupAll(n - 1), e \in Dedup(merged_entries[n].val) }

\* the number of (entry, position) pairs at which the list entry[field] holds x
Occurrences(entries, field, x) ==
  Cardinality(UNION { { << i, j >> : j \in { j \in DOMAIN entries[i][field] :
                                               entries[i][field][j] = x } } :
                      i \in DOMAIN entries })

\* the metadata with every entry counted under its first source only
Metadata_first_source(entries) ==
  [ total_entries       |-> Len(entries),
    risk_distribution   |->
      [ r \in { entries[i].risk_level : i \in DOMAIN entries } |->
          Cardinality({ i \in DOMAIN entries : entries[i].risk_level = r }) ],
    source_distribution |->
      [ x \in { entries[i].sources[1] : i \in DOMAIN entries } |->
          Cardinality({ i \in DOMAIN entries : entries[i].sources[1] = x }) ],
    method_distribution |->
      [ m \in { entries[i].method : i \in DOMAIN entries } |->
          Cardinality({ i \in DOMAIN entries : entries[i].method = m }) ] ]

\* generate_url_map, lines 190-218
Metadata(entries) ==
  [ total_entries       |-> Len(entries),
    risk_distribution   |->
      [ r \in { entries[i].risk_level : i \in DOMAIN entries } |->
          Cardinality({ i \in DOMAIN entries : entries[i].risk_level = r }) ],
    source_distribution |->
      [ x \in UNION { Range(entries[i].sources) : i \in DOMAIN entries } |->
          Occurrences(entries, "sources", x) ],
    method_distribution |->
      [ m \in { entries[i].method : i \in DOMAIN entries } |->
          Cardinality({ i \in DOMAIN entries : entries[i].method = m }) ] ]

\* the three loops are over: lines 159-172 and generate_url_map, lines 187-218
Finalize ==
  /\ pc \in { "static", "dynamic", "component" }
  /\ pc' = "done"
  /\ \E entries \in DedupAll(Len(merged_entries)) :
       /\ merged_entries' =
            [ i \in DOMAIN merged_entries |->
                [ merged_entries[i] EXCEPT !.val = entries[i] ] ]
       /\ url_map' = [ entries |-> entries, metadata |-> Metadata(entries) ]
  /\ UNCHANGED << static_in, static_urls, dynamic_results, providers, clock >>
  /\ UNCHANGED differVars
  /\ UNCHANGED utilVars
  /\ UNCHANGED storeVars
  /\ UNCHANGED taskVars

Next ==
  \/ \E entry \in StaticRecords : StaticStep(entry)
  \/ \E flow \in Flows : DynamicStep(flow)
  \/ \E provider \in Providers : ComponentStep(provider)
  \/ Finalize

Spec == Init /\ [][Next]_vars

\* the same run over the URLs of VariantUrls
NextVariants ==
  \/ \E entry \in VariantRecords : StaticStep(entry)
  \/ \E flow \in VariantFlows : DynamicStep(flow)
  \/ \E provider \in VariantProviders : ComponentStep(provider)
  \/ Finalize

SpecVariants == Init /\ [][NextVariants]_vars

(***************************************************************************)
(* compare_url_maps                                                        *)
(***************************************************************************)
UsersSignature == ApiHost \o <<"/","v","1","/","u","s","e","r","s">>

ProductsSignature == ApiHost \o <<"/","v","1","/","p","r","o","d","u","c","t","s">>

OrdersSignature == ApiHost \o <<"/","v","1","/","o","r","d","e","r","s">>

\* the entries of the catalogs compared (tests/test_url_mapper.py:150-182,
\* with a risk level to tell entries of one signature apart)
DiffEntries ==
  [ signature  : { UsersSignature, ProductsSignature, OrdersSignature },
    risk_level : { "LOW", "HIGH" } ]

RECURSIVE ListsUpTo(_, _)
ListsUpTo(S, n) ==
  IF n = 0 THEN { <<>> }
  ELSE LET shorter == ListsUpTo(S, n - 1)
       IN  shorter \cup { Append(l, x) : l \in { l \in shorter : Len(l) = n - 1 }, x \in S }

\* a catalog, with or without the key 'entries'
Catalogs ==
  { NoCatalog } \cup
  { [ has_entries |-> TRUE, entries |-> es ] : es \in ListsUpTo(DiffEntries, MaxEntries) }

\* map.get('entries', [])
get_entries(map) == IF map.has_entries THEN map.entries ELSE <<>>

signatures(map) == { get_entries(map)[i].signature : i \in DOMAIN get_entries(map) }

\* compare_url_maps reporting every signature of the new catalog as added
compare_url_maps_added_all(old, new) ==
  LET old_signatures == signatures(old)
      new_signatures == signatures(new)
      added          == new_signatures
      removed        == old_signatures \ new_signatures
      unchanged      == old_signatures \cap new_signatures
  IN  { [ called    |-> TRUE,
          added     |-> a,
          removed   |-> r,
          unchanged |-> u,
          summary   |-> [ added_count     |-> Cardinality(added),
                          removed_count   |-> Cardinality(removed),
                          unchanged_count |-> Cardinality(unchanged) ] ] :
        a \in ListOfSet(added), r \in ListOfSet(removed), u \in ListOfSet(unchanged) }

\* compare_url_maps with the two differences exchanged
compare_url_maps_swapped(old, new) ==
  LET old_signatures == signatures(old)
      new_signatures == signatures(new)
      added          == old_signatures \ new_signatures
      removed        == new_signatures \ old_signatures
      unchanged      == old_signatures \cap new_signatures
  IN  { [ called    |-> TRUE,
          added     |-> a,
          removed   |-> r,
          unchanged |-> u,
          summary   |-> [ added_count     |-> Cardinality(added),
                          removed_count   |-> Cardinality(removed),
                          unchanged_count |-> Cardinality(unchanged) ] ] :
        a \in ListOfSet(added), r \in ListOfSet(removed), u \in ListOfSet(unchanged) }

\* lines 270-286; the set of values the call can return, one per order in
\* which list() enumerates the three sets
compare_url_maps(old, new) ==
  LET old_signatures == signatures(old)
      new_signatures == signatures(new)
      added          == new_signatures \ old_signatures
      removed        == old_signatures \ new_signatures
      unchanged      == old_signatures \cap new_signatures
  IN  { [ called    |-> TRUE,
          added     |-> a,
          removed   |-> r,
          unchanged |-> u,
          summary   |-> [ added_count     |-> Cardinality(added),
                          removed_count   |-> Cardinality(removed),
                          unchanged_count |-> Cardinality(unchanged) ] ] :
        a \in ListOfSet(added), r \in ListOfSet(removed), u \in ListOfSet(unchanged) }

InitDiff ==
  /\ pc = "static"
  /\ static_in = <<>>
  /\ static_urls = <<>>
  /\ dynamic_results = <<>>
  /\ providers = <<>>
  /\ merged_entries = <<>>
  /\ url_map = NoMap
  /\ clock = 0
  /\ old_map \in Catalogs
  /\ new_map \in Catalogs
  /\ comparison = NoComparison
  /\ given_url = << >>
  /\ normalized = << >>
  /\ extracted = << >>
  /\ static_results = NotMerged
  /\ static_map = NotMapped
  /\ file = NoFile
  /\ saved = NotSaved
  /\ loaded = NotLoaded
  /\ tasks = NoTasks
  /\ tasks_file = NoTasksFile
  /\ last_call = NoCall
  /\ calls = 0

Compare ==
  /\ ~ comparison.called
  /\ comparison' \in compare_url_maps(old_map, new_map)
  /\ UNCHANGED << old_map, new_map >>
  /\ UNCHANGED mergeVars
  /\ UNCHANGED utilVars
  /\ UNCHANGED storeVars
  /\ UNCHANGED taskVars

NextDiff == Compare

SpecDiff == InitDiff /\ [][NextDiff]_vars

(***************************************************************************)
(* normalize_url and extract_path_parameters applied to one URL            *)
(***************************************************************************)
\* number of times a function is applied to its own result
MaxApply == 2

UpperHttp == <<"H","T","T","P">>

MixedCaseHost ==
  <<"A","P","I",".","E","x","a","m","p","l","e",".","c","o","m",".">>

SampleUuid ==
  <<"1","2","3","e","4","5","6","7","-","e","8","9","b","-","1","2","d","3","-","a","4","5","6","-","4","2","6","6","1","4","1","7","4","0","0","0">>

UtilPaths ==
  { << >>, <<"/">>, UsersPath,
    <<"/","u","s","e","r","s","/","1","2","3","/">>,
    <<"/","v","1","/","u","s","e","r","s","/","4","5","6","/">>,
    <<"/","a","/",";","b","/">>,
    <<"/","/","X">>,
    <<"/","1","/","2","/","3","/">>,
    <<"/","a","/","b","/","c","/">>,
    <<"/","i","t","e","m","s","/">> \o SampleUuid \o <<"/">> }

UtilUrls ==
  { Url(s, h, p, << >>) : s \in { Https, UpperHttp },
                          h \in { ApiHost, MixedCaseHost, <<".">> },
                          p \in UtilPaths }
    \cup UtilPaths \cup { MalformedUrl }

InitUrl ==
  /\ pc = "static"
  /\ static_in = <<>>
  /\ static_urls = <<>>
  /\ dynamic_results = <<>>
  /\ providers = <<>>
  /\ merged_entries = <<>>
  /\ url_map = NoMap
  /\ clock = 0
  /\ old_map = NoCatalog
  /\ new_map = NoCatalog
  /\ comparison = NoComparison
  /\ given_url \in UtilUrls
  /\ normalized = << >>
  /\ extracted = << >>
  /\ static_results = NotMerged
  /\ static_map = NotMapped
  /\ file = NoFile
  /\ saved = NotSaved
  /\ loaded = NotLoaded
  /\ tasks = NoTasks
  /\ tasks_file = NoTasksFile
  /\ last_call = NoCall
  /\ calls = 0

\* normalize_url called on the URL, then on what it returned
Normalize ==
  /\ Len(normalized) < MaxApply
  /\ normalized' =
       Append(normalized,
              normalize_url(IF normalized = << >> THEN given_url
                            ELSE normalized[Len(normalized)]))
  /\ UNCHANGED << given_url, extracted, static_results, static_map >>
  /\ UNCHANGED << mergeVars, differVars, storeVars, taskVars >>

\* extract_path_parameters called on the URL, then on the URL it returned
Extract ==
  /\ Len(extracted) < MaxApply
  /\ extracted' =
       Append(extracted,
              extract_path_parameters(IF extracted = << >> THEN given_url
                                      ELSE extracted[Len(extracted)].url))
  /\ UNCHANGED << given_url, normalized, static_results, static_map >>
  /\ UNCHANGED << mergeVars, differVars, storeVars, taskVars >>

\* deduplicate_urls(urls), lines 110-130: the distinct normalized URLs in
\* the order the set gives them
deduplicate_urls(urls) ==
  ListOfSet({ normalize_url(urls[i]) : i \in DOMAIN urls })

\* lines 166-181: the record of one unique URL; ex is what
\* extract_path_parameters returned for it and jadx_urls the URLs of
\* jadx_results (the two other tool results are empty)
static_record(url, ex, jadx_urls) ==
  [ url          |-> ex.url,
    original_url |-> url,
    parameters   |-> ex.parameters,
    sources      |-> IF \E i \in DOMAIN jadx_urls : jadx_urls[i] = url
                       THEN << "jadx" >> ELSE << >> ]

\* merge_static_results({'urls': jadx_urls}, {}, {})['urls'], lines 145-183
merge_static_results(jadx_urls) ==
  { [ i \in DOMAIN unique_urls |->
        static_record(unique_urls[i], extract_path_parameters(unique_urls[i]),
                      jadx_urls) ] :
      unique_urls \in deduplicate_urls(jadx_urls) }

\* main.py line 130: merge_static_results for the tool result that holds
\* given_url
MergeStaticResults ==
  /\ ~ static_results.called
  /\ static_results' \in
       { [ called |-> TRUE, urls |-> us ] : us \in merge_static_results(<< given_url >>) }
  /\ UNCHANGED << given_url, normalized, extracted, static_map >>
  /\ UNCHANGED << mergeVars, differVars, storeVars, taskVars >>

\* the entry of the one record of static_results; raised when urlparse
\* raised ValueError (line 24)
static_mapped(parsed, entry, t1, t2) ==
  IF parsed.ok
    THEN [ called |-> TRUE, raised |-> FALSE,
           entries |-> << normalized_entry(parsed, entry.url, "UNKNOWN", "static",
                                           entry.parameters, t1, t2) >> ]
    ELSE [ called |-> TRUE, raised |-> TRUE, entries |-> << >> ]

\* main.py line 172: generate_url_map(static_results, [], None) for the
\* one record merge_static_results returned (url_mapper.py lines 86-110
\* and 159-165)
MapStaticResults ==
  /\ static_results.called
  /\ ~ static_map.called
  /\ \E t1 \in Readings(clock) : \E t2 \in Readings(t1) :
       /\ static_map' = static_mapped(urlparse(static_results.urls[1].url),
                                      static_results.urls[1], t1, t2)
       /\ clock' = IF static_map'.raised THEN clock ELSE t2
  /\ UNCHANGED << given_url, normalized, extracted, static_results >>
  /\ UNCHANGED << pc, static_in, static_urls, dynamic_results, providers,
                  merged_entries, url_map >>
  /\ UNCHANGED << differVars, storeVars, taskVars >>

NextUrl == Normalize \/ Extract \/ MergeStaticResults \/ MapStaticResults

SpecUrl == InitUrl /\ [][NextUrl]_vars

(***************************************************************************)
(* save_url_map and load_url_map, url_mapper.py:220-257.  The text of the  *)
(* file is kept as the sequence of JSON tokens json.dump writes.           *)
(***************************************************************************)
\* a punctuation token of the JSON text
Punct(c) == [ kind |-> "punct", text |-> << c >> ]

\* a string token of the JSON text
Str(chars) == [ kind |-> "string", text |-> chars ]

\* json.dump of one entry
dump_entry(e) ==
  << Punct("{"), Str(<<"signature">>), Punct(":"), Str(e.signature), Punct(","),
     Str(<<"risk_level">>), Punct(":"), Str(<< e.risk_level >>), Punct("}") >>

RECURSIVE dump_list(_)
\* json.dump of the elements of a list, a comma between two of them
dump_list(es) ==
  IF es = << >> THEN << >>
  ELSE IF Len(es) = 1 THEN dump_entry(es[1])
  ELSE dump_entry(es[1]) \o << Punct(",") >> \o dump_list(Tail(es))

\* json.dump(url_map, f, indent=2), line 233
json_dump(map) ==
  << Punct("{") >>
    \o (IF map.has_entries
          THEN << Str(<<"entries">>), Punct(":"), Punct("[") >>
                 \o dump_list(map.entries) \o << Punct("]") >>
          ELSE << >>)
    \o << Punct("}") >>

\* the parser found no JSON value
NoValue == [ ok |-> FALSE, next |-> 0, value |-> [ type |-> "none" ] ]

Parsed(next, value) == [ ok |-> TRUE, next |-> next, value |-> value ]

\* the token at position i of t is the punctuation c
At(t, i, c) == i <= Len(t) /\ t[i] = Punct(c)

RECURSIVE parse_value(_, _)
RECURSIVE parse_elements(_, _, _)
RECURSIVE parse_members(_, _, _)

\* after an element r of a list: a comma and the next element, or the end
after_element(t, acc, r) ==
  IF ~ r.ok THEN NoValue
  ELSE IF At(t, r.next, ",") THEN parse_elements(t, r.next + 1, Append(acc, r.value))
  ELSE IF At(t, r.next, "]")
    THEN Parsed(r.next + 1, [ type |-> "list", items |-> Append(acc, r.value) ])
  ELSE NoValue

parse_elements(t, i, acc) == after_element(t, acc, parse_value(t, i))

\* after the value r of the member named key: a comma and the next member,
\* or the end
after_member(t, acc, key, r) ==
  IF ~ r.ok THEN NoValue
  ELSE IF At(t, r.next, ",")
    THEN parse_members(t, r.next + 1, Append(acc, [ key |-> key, value |-> r.value ]))
  ELSE IF At(t, r.next, "}")
    THEN Parsed(r.next + 1,
                [ type  |-> "dict",
                  items |-> Append(acc, [ key |-> key, value |-> r.value ]) ])
  ELSE NoValue

\* a member of an object: a string, a colon and a value
parse_members(t, i, acc) ==
  IF i + 1 <= Len(t) /\ t[i].kind = "string" /\ At(t, i + 1, ":")
    THEN after_member(t, acc, t[i].text, parse_value(t, i + 2))
    ELSE NoValue

\* one JSON value read from position i of the tokens t
parse_value(t, i) ==
  IF i > Len(t) THEN NoValue
  ELSE IF t[i].kind = "string" THEN Parsed(i + 1, [ type |-> "str", text |-> t[i].text ])
  ELSE IF At(t, i, "[")
    THEN IF At(t, i + 1, "]") THEN Parsed(i + 2, [ type |-> "list", items |-> << >> ])
         ELSE parse_elements(t, i + 1, << >>)
  ELSE IF At(t, i, "{")
    THEN IF At(t, i + 1, "}") THEN Parsed(i + 2, [ type |-> "dict", items |-> << >> ])
         ELSE parse_members(t, i + 1, << >>)
  ELSE NoValue

\* json.load raises JSONDecodeError unless the text is one value and
\* nothing more
whole_document(t, r) == IF r.ok /\ r.next = Len(t) + 1 THEN r ELSE NoValue

json_load(t) == whole_document(t, parse_value(t, 1))

\* the value of the member named key of the dict d
member(d, key) ==
  d.items[CHOOSE i \in DOMAIN d.items : d.items[i].key = key].value

has_member(d, key) == \E i \in DOMAIN d.items : d.items[i].key = key

\* the dict json.load returned, as a catalog
as_catalog(d) ==
  IF has_member(d, <<"entries">>)
    THEN [ has_entries |-> TRUE,
           entries     |->
             [ i \in DOMAIN member(d, <<"entries">>).items |->
                 [ signature  |-> member(member(d, <<"entries">>).items[i],
                                         <<"signature">>).text,
                   risk_level |-> member(member(d, <<"entries">>).items[i],
                                         <<"risk_level">>).text[1] ] ] ]
    ELSE NoCatalog

\* the catalogs saved: without the key 'entries', and with no, one and two
\* entries
StoreMaps ==
  { NoCatalog,
    [ has_entries |-> TRUE, entries |-> << >> ],
    [ has_entries |-> TRUE,
      entries     |-> << [ signature |-> UsersSignature, risk_level |-> "LOW" ] >> ],
    [ has_entries |-> TRUE,
      entries     |-> << [ signature |-> UsersSignature, risk_level |-> "LOW" ],
                         [ signature |-> ProductsSignature, risk_level |-> "HIGH" ] >> ] }

\* the ways the file system can fail a call: not at all, at open(), or at
\* the write after k tokens / at the read
Faults(text) == { [ at |-> "none", k |-> 0 ], [ at |-> "open", k |-> 0 ] }
                  \cup { [ at |-> "io", k |-> k ] : k \in 0 .. (Len(text) - 1) }

\* lines 232-233: the file after open(output_path, 'w') and json.dump, and
\* the exception raised, if any
try_save(f, map, fault) ==
  IF fault.at = "open" THEN [ exc |-> "OSError", file |-> f ]
  ELSE IF fault.at = "io"
    THEN [ exc  |-> "OSError",
           file |-> [ exists |-> TRUE, text |-> SubSeq(json_dump(map), 1, fault.k) ] ]
  ELSE [ exc |-> "none", file |-> [ exists |-> TRUE, text |-> json_dump(map) ] ]

\* lines 231-237: True after the try block, False from the handler of Exception
save_outcome(map, fault, r) ==
  [ called |-> TRUE, raised |-> FALSE, result |-> r.exc = "none", url_map |-> map,
    fault |-> fault.at ]

\* lines 250-252: open(input_path, 'r') and json.load; source is the file
\* as the call found it
try_load(f, fault) ==
  IF ~ f.exists \/ fault.at # "none"
    THEN [ exc |-> "OSError", value |-> NoValue.value, source |-> f ]
  ELSE IF ~ json_load(f.text).ok
    THEN [ exc |-> "JSONDecodeError", value |-> NoValue.value, source |-> f ]
  ELSE [ exc |-> "none", value |-> json_load(f.text).value, source |-> f ]

\* load_url_map with a handler for OSError only
load_outcome_oserror_only(r) ==
  IF r.exc = "OSError"
    THEN [ called |-> TRUE, raised |-> FALSE, none |-> TRUE, url_map |-> NoCatalog,
           source |-> r.source ]
  ELSE IF r.exc # "none"
    THEN [ called |-> TRUE, raised |-> TRUE, none |-> FALSE, url_map |-> NoCatalog,
           source |-> r.source ]
  ELSE [ called |-> TRUE, raised |-> FALSE, none |-> FALSE,
         url_map |-> as_catalog(r.value), source |-> r.source ]

\* lines 249-257: the value read, None from the handler of Exception
load_outcome(r) ==
  IF r.exc # "none"
    THEN [ called |-> TRUE, raised |-> FALSE, none |-> TRUE, url_map |-> NoCatalog,
           source |-> r.source ]
    ELSE [ called |-> TRUE, raised |-> FALSE, none |-> FALSE,
           url_map |-> as_catalog(r.value), source |-> r.source ]

\* save_url_map(url_map, output_path)
Save(map, fault) ==
  /\ file' = try_save(file, map, fault).file
  /\ saved' = save_outcome(map, fault, try_save(file, map, fault))
  /\ UNCHANGED loaded
  /\ UNCHANGED << mergeVars, differVars, utilVars, taskVars >>

\* load_url_map(input_path)
Load(fault) ==
  /\ loaded' = load_outcome(try_load(file, fault))
  /\ UNCHANGED << file, saved >>
  /\ UNCHANGED << mergeVars, differVars, utilVars, taskVars >>

NextStore ==
  \/ \E map \in StoreMaps : \E fault \in Faults(json_dump(map)) : Save(map, fault)
  \/ \E fault \in { [ at |-> "none", k |-> 0 ], [ at |-> "io", k |-> 0 ] } : Load(fault)

SpecStore == Init /\ [][NextStore]_vars

(***************************************************************************)
(* TaskManager, task_manager.py:164-237.  The workspace is taken to be     *)
(* writable, so that save_tasks never fails.                               *)
(***************************************************************************)
\* number of calls made on one TaskManager
MaxCalls == 5

TaskIds == { "task_001", "subtask_001", "subtask_002" }

\* parent_task_id = None
NoParent == "None"

\* Task.__init__, lines 25-39; started_at, completed_at and error tell
\* whether the timestamp or metadata['error'] is set
Task(task_id, parent_task_id) ==
  [ task_id        |-> task_id,
    status         |-> "pending",
    parent_task_id |-> parent_task_id,
    subtasks       |-> << >>,
    started_at     |-> FALSE,
    completed_at   |-> FALSE,
    error          |-> FALSE ]

\* Task.start, lines 41-44
start(task) == [ task EXCEPT !.status = "in_progress", !.started_at = TRUE ]

\* Task.complete, lines 46-49
complete(task) == [ task EXCEPT !.status = "completed", !.completed_at = TRUE ]

\* Task.fail, lines 51-55
fail(task) ==
  [ task EXCEPT !.status = "failed", !.completed_at = TRUE, !.error = TRUE ]

\* Task.add_subtask, lines 57-60
add_subtask(task, subtask_id) ==
  IF \E i \in DOMAIN task.subtasks : task.subtasks[i] = subtask_id
    THEN task
    ELSE [ task EXCEPT !.subtasks = Append(@, subtask_id) ]

\* self.tasks[task_id] = task (line 179)
TaskPut(d, task_id, task) ==
  [ x \in DOMAIN d \cup { task_id } |-> IF x = task_id THEN task ELSE d[x] ]

\* lines 182-183, d being self.tasks with the new task in it
add_to_parent(d, task_id, parent_task_id) ==
  IF parent_task_id # NoParent /\ parent_task_id \in DOMAIN d
    THEN [ d EXCEPT ![parent_task_id] = add_subtask(@, task_id) ]
    ELSE d

\* create_task, lines 174-186: self.tasks after the call
create_task(d, task_id, parent_task_id) ==
  add_to_parent(TaskPut(d, task_id, Task(task_id, parent_task_id)),
                task_id, parent_task_id)

\* start_task, lines 201-205
start_task(d, task_id) ==
  IF task_id \in DOMAIN d THEN [ d EXCEPT ![task_id] = start(@) ] ELSE d

\* fail_task, lines 216-220
fail_task(d, task_id) ==
  IF task_id \in DOMAIN d THEN [ d EXCEPT ![task_id] = fail(@) ] ELSE d

\* the parent completed as soon as one listed subtask is completed
all_completed_any(d, subtasks) ==
  \E i \in DOMAIN subtasks :
    subtasks[i] \in DOMAIN d /\ d[subtasks[i]].status = "completed"

\* lines 228-233: no listed subtask that is in self.tasks has another
\* status than COMPLETED
all_completed(d, subtasks) ==
  \A i \in DOMAIN subtasks :
    subtasks[i] \in DOMAIN d => d[subtasks[i]].status = "completed"

\* _check_parent_completion, lines 222-237
check_parent_completion(d, task_id) ==
  IF /\ d[task_id].parent_task_id # NoParent
     /\ d[task_id].parent_task_id \in DOMAIN d
     /\ all_completed(d, d[d[task_id].parent_task_id].subtasks)
    THEN [ d EXCEPT ![d[task_id].parent_task_id] = complete(@) ]
    ELSE d

\* complete_task, lines 207-214
complete_task(d, task_id) ==
  IF task_id \in DOMAIN d
    THEN check_parent_completion([ d EXCEPT ![task_id] = complete(@) ], task_id)
    ELSE d

\* save_tasks, lines 263-270: the file holds every task as it is now
save_tasks(d) == [ exists |-> TRUE, tasks |-> d ]

CreateTask(task_id, parent_task_id) ==
  /\ calls < MaxCalls
  /\ calls' = calls + 1
  /\ tasks' = create_task(tasks, task_id, parent_task_id)
  /\ tasks_file' = save_tasks(tasks')
  /\ last_call' = [ op |-> "create_task", task_id |-> task_id ]
  /\ UNCHANGED << mergeVars, differVars, utilVars, storeVars >>

StartTask(task_id) ==
  /\ calls < MaxCalls
  /\ calls' = calls + 1
  /\ tasks' = start_task(tasks, task_id)
  /\ tasks_file' = IF task_id \in DOMAIN tasks THEN save_tasks(tasks') ELSE tasks_file
  /\ last_call' = [ op |-> "start_task", task_id |-> task_id ]
  /\ UNCHANGED << mergeVars, differVars, utilVars, storeVars >>

CompleteTask(task_id) ==
  /\ calls < MaxCalls
  /\ calls' = calls + 1
  /\ tasks' = complete_task(tasks, task_id)
  /\ tasks_file' = IF task_id \in DOMAIN tasks THEN save_tasks(tasks') ELSE tasks_file
  /\ last_call' = [ op |-> "complete_task", task_id |-> task_id ]
  /\ UNCHANGED << mergeVars, differVars, utilVars, storeVars >>

FailTask(task_id) ==
  /\ calls < MaxCalls
  /\ calls' = calls + 1
  /\ tasks' = fail_task(tasks, task_id)
  /\ tasks_file' = IF task_id \in DOMAIN tasks THEN save_tasks(tasks') ELSE tasks_file
  /\ last_call' = [ op |-> "fail_task", task_id |-> task_id ]
  /\ UNCHANGED << mergeVars, differVars, utilVars, storeVars >>

NextTasks ==
  \/ \E task_id \in TaskIds : \E parent_task_id \in TaskIds \cup { NoParent } :
       CreateTask(task_id, parent_task_id)
  \/ \E task_id \in TaskIds : StartTask(task_id)
  \/ \E task_id \in TaskIds : CompleteTask(task_id)
  \/ \E task_id \in TaskIds : FailTask(task_id)

SpecTasks == Init /\ [][NextTasks]_vars

(***************************************************************************)
(* Properties of the merge                                                 *)
(***************************************************************************)
Last(l) == l[Len(l)]

\* the observations folded so far, as url and attached parameters
FoldedObservations ==
  { [ url |-> static_in[i].url, parameters |-> static_in[i].parameters ] :
      i \in DOMAIN static_in }
  \cup { [ url |-> dynamic_results[i].url, parameters |-> <<>> ] :
           i \in DOMAIN dynamic_results }
  \cup { [ url |-> ContentScheme \o providers[i].uri, parameters |-> <<>> ] :
           i \in { i \in DOMAIN providers : Ingested(providers[i]) } }

\* the signature create_url_mapping_entry gives the observation
SignatureOf(url, parameters) == created[url][parameters].signature

\* the number of observations folded so far whose signature is sig
NumFolded(sig) ==
  Cardinality({ i \in DOMAIN static_in :
                  SignatureOf(static_in[i].url, static_in[i].parameters) = sig })
  + Cardinality({ i \in DOMAIN dynamic_results :
                    SignatureOf(dynamic_results[i].url, <<>>) = sig })
  + Cardinality({ i \in DOMAIN providers :
                    /\ Ingested(providers[i])
                    /\ SignatureOf(ContentScheme \o providers[i].uri, <<>>) = sig })

\* the entries of the catalog at this point of the run
Entries ==
  IF pc = "done" THEN url_map.entries
  ELSE [ i \in DOMAIN merged_entries |-> merged_entries[i].val ]

\* C1: in the catalog under construction and in every catalog returned, no
\* two entries share a signature.
C1_UniqueSignatures ==
  \A i, j \in DOMAIN Entries :
    Entries[i].signature = Entries[j].signature => i = j

\* two observations were folded into one entry of the returned catalog
C1_Witness ==
  /\ pc = "done"
  /\ NumObs = 2
  /\ Len(url_map.entries) = 1
  /\ url_map.entries[1].frequency = 2

\* C2: no merge step lowers the risk_level of an entry (LOW=1 < MEDIUM=2 <
\* HIGH=3): every entry present before a step is present after it with a
\* risk_level at least as high.
C2_MonotonicRisk ==
  [][ \A i \in DOMAIN merged_entries :
        /\ i \in DOMAIN merged_entries'
        /\ merged_entries'[i].key = merged_entries[i].key
        /\ risk_levels[merged_entries'[i].val.risk_level]
             >= risk_levels[merged_entries[i].val.risk_level] ]_vars

\* an observation classified LOW was folded into an entry created MEDIUM,
\* and the entry is still MEDIUM
C2_Witness ==
  /\ Len(static_in) = 2
  /\ classify_risk(static_in[1].url, static_in[1].parameters) = "MEDIUM"
  /\ classify_risk(static_in[2].url, static_in[2].parameters) = "LOW"
  /\ Len(merged_entries) = 1
  /\ merged_entries[1].val.frequency = 2
  /\ merged_entries[1].val.risk_level = "MEDIUM"

\* C3: at every point of the merge and in the returned catalog, the
\* frequency of an entry is the number of observations (static records,
\* flows, accessible providers) folded so far whose signature is the
\* entry's, and every folded observation has its entry.
C3_FrequencyCountsObservations ==
  /\ \A i \in DOMAIN Entries :
       Entries[i].frequency = NumFolded(Entries[i].signature)
  /\ \A o \in FoldedObservations :
       \E i \in DOMAIN Entries :
         Entries[i].signature = SignatureOf(o.url, o.parameters)

\* a static record and a flow were folded into one entry
C3_Witness ==
  /\ Len(static_in) = 1
  /\ Len(dynamic_results) = 1
  /\ Len(Entries) = 1
  /\ Entries[1].frequency = 2

\* the run folded exactly the same observation twice
SameObservationTwice ==
  \/ /\ Len(static_in) = 2 /\ static_in[1] = static_in[2]
     /\ dynamic_results = <<>> /\ providers = <<>>
  \/ /\ Len(dynamic_results) = 2 /\ dynamic_results[1] = dynamic_results[2]
     /\ static_in = <<>> /\ providers = <<>>
  \/ /\ Len(providers) = 2 /\ providers[1] = providers[2] /\ Ingested(providers[1])
     /\ static_in = <<>> /\ dynamic_results = <<>>

\* C4: merge identity: the same observation folded twice into an empty
\* catalog gives a returned catalog of exactly one entry, with frequency 2
\* and one source.
C4_MergeIdentity ==
  (pc = "done" /\ SameObservationTwice) =>
    /\ Len(url_map.entries) = 1
    /\ url_map.entries[1].frequency = 2
    /\ Len(url_map.entries[1].sources) = 1

\* the same accessible provider was folded twice and the catalog returned
C4_Witness ==
  /\ pc = "done"
  /\ SameObservationTwice
  /\ Len(providers) = 2
  /\ url_map.entries[1].sources = << "component" >>

LoginUrl == Url(Https, ApiHost, LoginPath, <<>>)

\* C5: the static observation of https://api.example.com/v1/login followed
\* by the dynamic observation of the same URL with method POST gives one
\* entry: signature api.example.com/v1/login, method POST, sources
\* {static, dynamic}, risk_level HIGH, frequency 2.
C5_LoginScenario ==
  ( /\ pc = "done"
    /\ static_in = << [ url |-> LoginUrl, parameters |-> <<>> ] >>
    /\ dynamic_results = << [ url |-> LoginUrl, method |-> "POST" ] >>
    /\ providers = <<>> ) =>
    /\ Len(url_map.entries) = 1
    /\ url_map.entries[1].signature = ApiHost \o LoginPath
    /\ url_map.entries[1].method = "POST"
    /\ Range(url_map.entries[1].sources) = { "static", "dynamic" }
    /\ Len(url_map.entries[1].sources) = 2
    /\ url_map.entries[1].risk_level = "HIGH"
    /\ url_map.entries[1].frequency = 2

\* the scenario of C5 ran to its end
C5_Witness ==
  /\ pc = "done"
  /\ static_in = << [ url |-> LoginUrl, parameters |-> <<>> ] >>
  /\ dynamic_results = << [ url |-> LoginUrl, method |-> "POST" ] >>
  /\ providers = <<>>
  /\ url_map.metadata.total_entries = 1

UsersUrl == Url(Https, ApiHost, UsersPath, <<>>)

UsersQueryUrl == Url(Http, ApiHost, UsersPath, QueryX)

UsersIdSignature == ApiHost \o <<"/","v","1","/","u","s","e","r","s","/">> \o Id

\* the urls of the observations folded, in the order of folding
FoldedUrls ==
  [ i \in DOMAIN static_in |-> static_in[i].url ]
  \o [ i \in DOMAIN dynamic_results |-> dynamic_results[i].url ]

\* C6: https://api.example.com/v1/users/123 and
\* http://api.example.com/v1/users/123?x=1 both get the signature
\* api.example.com/v1/users/{id}, and folding the two observations gives
\* one entry with frequency 2.
C6_CollapseExample ==
  ( /\ pc = "done"
    /\ providers = <<>>
    /\ FoldedUrls \in { << UsersUrl, UsersQueryUrl >>, << UsersQueryUrl, UsersUrl >> } ) =>
    /\ Len(url_map.entries) = 1
    /\ url_map.entries[1].signature = UsersIdSignature
    /\ url_map.entries[1].frequency = 2

\* the position where the scheme of a URL ends, 0 when it has none
SchemeEnd(u) == find(u, <<":","/","/">>, 1)

\* the two URLs are equal from "://" on and differ before it
DifferOnlyInScheme(u1, u2) ==
  /\ u1 # u2
  /\ SchemeEnd(u1) > 1
  /\ SchemeEnd(u2) > 1
  /\ From(u1, SchemeEnd(u1)) = From(u2, SchemeEnd(u2))

\* the URL up to its first ? or #
WithoutQuery(u) ==
  LET ends == { i \in DOMAIN u : u[i] \in { "?", "#" } }
  IN  IF ends = {} THEN u ELSE Before(u, SetMin(ends))

\* the two URLs are equal up to the query string or fragment and differ in it
DifferOnlyInQuery(u1, u2) == u1 # u2 /\ WithoutQuery(u1) = WithoutQuery(u2)

C8_ComponentIngestion ==
  /\ (pc = "component" /\ Ingested(Last(providers))) =>
       \E i \in DOMAIN merged_entries :
         /\ merged_entries[i].key = Last(providers).uri
         /\ merged_entries[i].val.signature = Last(providers).uri
         /\ merged_entries[i].val.method = "CONTENT_PROVIDER"
         /\ "component" \in Range(merged_entries[i].val.sources)
         /\ (ContentScheme \o Last(providers).uri)
              \in Range(merged_entries[i].val.original_urls)
  /\ ( /\ pc = "done"
       /\ static_in = <<>>
       /\ dynamic_results = <<>>
       /\ Len(providers) = 1
       /\ Ingested(providers[1]) ) =>
       /\ Len(url_map.entries) = 1
       /\ url_map.entries[1].method = "CONTENT_PROVIDER"
       /\ url_map.entries[1].sources = << "component" >>

\* a provider was folded into the entry a POST flow had created
C8_Witness ==
  /\ pc = "component"
  /\ Len(dynamic_results) = 1
  /\ dynamic_results[1].method = "POST"
  /\ Len(providers) = 1
  /\ Ingested(providers[1])
  /\ Len(merged_entries) = 1
  /\ merged_entries[1].val.method = "CONTENT_PROVIDER"
  /\ merged_entries[1].val.sources = << "dynamic", "component" >>

(***************************************************************************)
(* Properties of compare_url_maps                                          *)
(***************************************************************************)
\* the signatures of the entries of a catalog
SignatureSet(map) ==
  IF map.has_entries
    THEN { map.entries[i].signature : i \in DOMAIN map.entries }
    ELSE {}

\* C9: diff reflexivity: compare_url_maps(C, C) returns nothing added,
\* nothing removed and the signatures of C as unchanged, with the counts
\* 0, 0 and the number of signatures of C.
C9_DiffReflexive ==
  (comparison.called /\ old_map = new_map) =>
    /\ comparison.added = <<>>
    /\ comparison.removed = <<>>
    /\ Range(comparison.unchanged) = SignatureSet(old_map)
    /\ comparison.summary.added_count = 0
    /\ comparison.summary.removed_count = 0
    /\ comparison.summary.unchanged_count = Cardinality(SignatureSet(old_map))

\* a catalog of two signatures was compared with itself
C9_Witness ==
  /\ comparison.called
  /\ old_map = new_map
  /\ Cardinality(SignatureSet(old_map)) = 2
  /\ Len(comparison.unchanged) = 2

\* C10: compare_url_maps(old, new) returns added = sig(new) \ sig(old),
\* removed = sig(old) \ sig(new), unchanged = sig(old) \cap sig(new), each
\* signature listed once, and the three counts are the sizes of these sets;
\* two catalogs with the same signatures report nothing added or removed,
\* whatever their entries contain.
C10_DiffBySignatureSets ==
  comparison.called =>
    /\ Range(comparison.added) = SignatureSet(new_map) \ SignatureSet(old_map)
    /\ Range(comparison.removed) = SignatureSet(old_map) \ SignatureSet(new_map)
    /\ Range(comparison.unchanged) = SignatureSet(old_map) \cap SignatureSet(new_map)
    /\ Len(comparison.added) = Cardinality(Range(comparison.added))
    /\ Len(comparison.removed) = Cardinality(Range(comparison.removed))
    /\ Len(comparison.unchanged) = Cardinality(Range(comparison.unchanged))
    /\ comparison.summary.added_count = Len(comparison.added)
    /\ comparison.summary.removed_count = Len(comparison.removed)
    /\ comparison.summary.unchanged_count = Len(comparison.unchanged)
    /\ SignatureSet(old_map) = SignatureSet(new_map) =>
         comparison.added = <<>> /\ comparison.removed = <<>>

\* two catalogs with the same signature and different risk levels were
\* compared: nothing added, nothing removed
C10_Witness ==
  /\ comparison.called
  /\ Len(old_map.entries) = 1
  /\ Len(new_map.entries) = 1
  /\ old_map.entries[1].signature = new_map.entries[1].signature
  /\ old_map.entries[1].risk_level = "LOW"
  /\ new_map.entries[1].risk_level = "HIGH"
  /\ comparison.added = <<>>
  /\ comparison.removed = <<>>
  /\ Len(comparison.unchanged) = 1


(***************************************************************************)
(* Properties of normalize_url and extract_path_parameters                 *)
(***************************************************************************)
\* C11: normalize_url applied to its own result returns that result:
\* normalize_url(normalize_url(u)) = normalize_url(u) for every URL u.
C11_NormalizeIdempotent ==
  Len(normalized) >= 2 => normalized[2] = normalized[1]

\* the paths made of stoplisted words followed by one all-digit segment,
\* with the digits of that segment
WordsThenDigits ==
  { [ words |-> w, digits |-> d ] :
      w \in { <<"/","u","s","e","r","s">>, <<"/","v","1","/","u","s","e","r","s">> },
      d \in { <<"1","2","3">>, <<"4","5","6">> } }

PathOf(u) == urlparse(u).path

\* C12: for a path made of stoplisted words followed by one all-digit
\* segment enclosed by slashes, such as /users/123/, the extractor returns
\* the path with the segment replaced by {id} and the parameter list that
\* holds the numeric_id of that segment and nothing else.
C12_ExtractionExample ==
  \A x \in WordsThenDigits :
    ( /\ extracted # << >>
      /\ PathOf(given_url) = x.words \o <<"/">> \o x.digits \o <<"/">> )
    => /\ PathOf(extracted[1].url) = x.words \o <<"/">> \o Id \o <<"/">>
       /\ extracted[1].parameters = << [ type |-> "numeric_id", value |-> x.digits ] >>

C12_Witness ==
  /\ given_url = <<"/","u","s","e","r","s","/","1","2","3","/">>
  /\ extracted # << >>
  /\ extracted[1].url = <<"/","u","s","e","r","s","/">> \o Id \o <<"/">>
  /\ extracted[1].parameters = << [ type |-> "numeric_id", value |-> <<"1","2","3">> ] >>


(***************************************************************************)
(* Properties of the risk level                                            *)
(***************************************************************************)
\* the risk the precedence rule gives: HIGH when an indicator occurs in the
\* lower-cased URL, else MEDIUM when one occurs in a lower-cased parameter
\* value, else LOW
RiskByPrecedence(u, parameters) ==
  IF \E k \in DOMAIN risk_indicators : contains(lower(u), risk_indicators[k])
    THEN "HIGH"
  ELSE IF \E k \in DOMAIN risk_indicators : \E j \in DOMAIN parameters :
            contains(lower(parameters[j].value), risk_indicators[k])
    THEN "MEDIUM"
  ELSE "LOW"

\* C13: the risk level given to an observation is HIGH whenever an
\* indicator occurs in its lower-cased URL, whatever its parameter values
\* hold, MEDIUM only when none occurs in the URL and one occurs in a
\* parameter value, and LOW otherwise.  An entry made of one observation
\* carries the risk level of that observation.
C13_UrlOutranksParameters ==
  \A i \in DOMAIN merged_entries :
    merged_entries[i].val.frequency = 1
    => merged_entries[i].val.risk_level
         = RiskByPrecedence(merged_entries[i].val.original_urls[1],
                            merged_entries[i].val.parameters)

\* the risk level create_url_mapping_entry gives the observation
ClassifiedRisk(o) == created[o.url][o.parameters].risk_level

\* C14: at every point of the merge and in the returned catalog, the
\* risk_level of an entry is the highest risk level classified for an
\* observation folded into it, whatever the source of the observation.
C14_RiskIsMaxOverObservations ==
  \A i \in DOMAIN Entries :
    risk_levels[Entries[i].risk_level]
      = SetMax({ risk_levels[ClassifiedRisk(o)] :
                   o \in { o \in FoldedObservations :
                             SignatureOf(o.url, o.parameters) = Entries[i].signature } })


(***************************************************************************)
(* Properties of the signature and of malformed records                    *)
(***************************************************************************)
\* the host lower-cased and without trailing dots, and the path without
\* trailing slashes unless it is the root
NormalForm(u) ==
  [ host |-> rstrip(lower(urlparse(u).netloc), "."),
    path |-> IF urlparse(u).path \in { << >>, <<"/">> } THEN urlparse(u).path
             ELSE rstrip(urlparse(u).path, "/") ]

NormalForms == [ u \in ObservedUrls |-> NormalForm(u) ]

\* the well-formed observations folded so far that carry no parameters
PlainObservations ==
  { o \in FoldedObservations : parses[o.url] /\ o.parameters = << >> }

\* C15: two observations whose URLs differ only in the letter case of the
\* host, in a trailing dot of the host or in a trailing slash of a path that
\* is not the root are folded into the same entry.
C15_NormalizedSignature ==
  \A o1, o2 \in PlainObservations :
    NormalForms[o1.url] = NormalForms[o2.url]
    => \E i \in DOMAIN Entries :
         /\ o1.url \in Range(Entries[i].original_urls)
         /\ o2.url \in Range(Entries[i].original_urls)

\* C16: a record whose URL cannot be parsed does not end the merge with an
\* exception: it is skipped, and the catalog returned holds an entry for
\* every other observation.
C16_BadRecordSkipped ==
  /\ pc # "raised"
  /\ pc = "done"
     => \A o \in { o \in FoldedObservations : parses[o.url] } :
          \E i \in DOMAIN url_map.entries :
            o.url \in Range(url_map.entries[i].original_urls)

\* the path extract_path_parameters gives, for every URL of the pools
ExtractedPaths ==
  [ u \in ObservedUrls |-> urlparse(extract_path_parameters(u).url).path ]

\* the URLs of the flows and ingested providers read so far
UnclassifiedUrls ==
  { dynamic_results[i].url : i \in DOMAIN dynamic_results }
  \cup { ContentScheme \o providers[i].uri :
           i \in { i \in DOMAIN providers : Ingested(providers[i]) } }

Users123SlashUrl == Url(Https, ApiHost, UsersPath \o <<"/">>, << >>)

Users456SlashUrl ==
  Url(Https, ApiHost, <<"/","v","1","/","u","s","e","r","s","/","4","5","6","/">>, << >>)

\* C20: a flow or a provider URI, which arrives without parameters, is in
\* an entry whose path is the one the Parameter Extractor gives its URL; the
\* flow .../v1/users/456/ is in the entry of the static record
\* .../v1/users/123/ that carries numeric_id 123.
C20_UnclassifiedAreExtracted ==
  /\ \A u \in { u \in UnclassifiedUrls : parses[u] } :
       \E i \in DOMAIN Entries :
         /\ u \in Range(Entries[i].original_urls)
         /\ Entries[i].path = ExtractedPaths[u]
  /\ ( /\ [ url |-> Users123SlashUrl, parameters |-> << NumericParam >> ]
            \in FoldedObservations
       /\ Users456SlashUrl \in UnclassifiedUrls )
     => \E i \in DOMAIN Entries :
          /\ Users123SlashUrl \in Range(Entries[i].original_urls)
          /\ Users456SlashUrl \in Range(Entries[i].original_urls)


(***************************************************************************)
(* Properties of the timestamps and of the accumulated lists               *)
(***************************************************************************)
\* C18: with a clock that never goes back, every entry has first_seen <=
\* last_seen; a step leaves the first_seen of every entry as it was and
\* never lowers its last_seen, and a merge into an entry sets last_seen to
\* the larger of its old value and the time of the new observation.
C18_SeenOrder ==
  [][ /\ \A i \in DOMAIN merged_entries' :
           merged_entries'[i].val.first_seen <= merged_entries'[i].val.last_seen
      /\ \A i \in DOMAIN merged_entries :
           /\ i \in DOMAIN merged_entries'
           /\ merged_entries'[i].val.first_seen = merged_entries[i].val.first_seen
           /\ merged_entries'[i].val.last_seen >= merged_entries[i].val.last_seen
           /\ merged_entries'[i].val.frequency > merged_entries[i].val.frequency
              => merged_entries'[i].val.last_seen
                   = Max(merged_entries[i].val.last_seen, clock') ]_vars

\* an entry created at time 0 into which an observation of time 1 was merged
C18_Witness ==
  /\ Len(merged_entries) = 1
  /\ merged_entries[1].val.frequency = 2
  /\ merged_entries[1].val.first_seen = 0
  /\ merged_entries[1].val.last_seen = 1

\* the sources of the observations folded so far whose signature is sig
SourcesFolded(sig) ==
  { src \in { "static", "dynamic", "component" } :
      \/ /\ src = "static"
         /\ \E i \in DOMAIN static_in :
              SignatureOf(static_in[i].url, static_in[i].parameters) = sig
      \/ /\ src = "dynamic"
         /\ \E i \in DOMAIN dynamic_results :
              SignatureOf(dynamic_results[i].url, << >>) = sig
      \/ /\ src = "component"
         /\ \E i \in DOMAIN providers :
              /\ Ingested(providers[i])
              /\ SignatureOf(ContentScheme \o providers[i].uri, << >>) = sig }

\* the raw URLs of the observations folded so far whose signature is sig
UrlsFolded(sig) ==
  { o.url : o \in { o \in FoldedObservations : SignatureOf(o.url, o.parameters) = sig } }

\* C19: in the catalog returned, the sources and the original_urls of an
\* entry hold no element twice, and they hold exactly the sources and the
\* raw URLs of the observations folded into the entry.
C19_ListsAreSets ==
  pc = "done"
  => \A i \in DOMAIN url_map.entries :
       /\ Len(url_map.entries[i].sources)
            = Cardinality(Range(url_map.entries[i].sources))
       /\ Len(url_map.entries[i].original_urls)
            = Cardinality(Range(url_map.entries[i].original_urls))
       /\ Range(url_map.entries[i].sources)
            = SourcesFolded(url_map.entries[i].signature)
       /\ Range(url_map.entries[i].original_urls)
            = UrlsFolded(url_map.entries[i].signature)

\* the same flow folded twice: one source, one raw URL
C19_Witness ==
  /\ pc = "done"
  /\ Len(dynamic_results) = 2
  /\ dynamic_results[1] = dynamic_results[2]
  /\ Len(url_map.entries) = 1
  /\ url_map.entries[1].frequency = 2
  /\ Len(url_map.entries[1].sources) = 1
  /\ Len(url_map.entries[1].original_urls) = 1


(***************************************************************************)
(* Properties of save_url_map and load_url_map                             *)
(***************************************************************************)
\* the texts json.dump writes for whole catalogs
WholeDocuments == { json_dump(m) : m \in StoreMaps }

\* C17: save_url_map and load_url_map never raise.  save_url_map returns
\* True exactly when no I/O failure happened, and the file then holds the
\* whole catalog.  load_url_map returns None when the file is missing or
\* its text is not a whole document; what it returns otherwise is the whole
\* catalog of the file, never a part of one.
C17_StoreNeverRaises ==
  /\ ~ saved.raised
  /\ ~ loaded.raised
  /\ saved.called => (saved.result <=> saved.fault = "none")
  /\ (saved.called /\ saved.result)
     => file = [ exists |-> TRUE, text |-> json_dump(saved.url_map) ]
  /\ loaded.called
     => /\ (~ loaded.source.exists \/ loaded.source.text \notin WholeDocuments)
           => loaded.none
        /\ ~ loaded.none
           => /\ loaded.url_map \in StoreMaps
              /\ loaded.source.text = json_dump(loaded.url_map)

\* a save failed during the write and load_url_map returned None for the
\* truncated file it left
C17_Witness ==
  /\ saved.called
  /\ ~ saved.result
  /\ loaded.called
  /\ loaded.none
  /\ loaded.source = file
  /\ file.exists
  /\ Len(file.text) > 1
  /\ file.text \notin WholeDocuments

(***************************************************************************)
(* Properties of the method, of provider ingestion and of the metadata     *)
(***************************************************************************)
\* the method of the observation the step reads: a static record is read
\* with UNKNOWN (line 90), a flow with its own method (line 115), a provider
\* with CONTENT_PROVIDER (line 143)
ObservedMethod ==
  IF Len(dynamic_results') > Len(dynamic_results) THEN Last(dynamic_results').method
  ELSE IF Len(providers') > Len(providers) THEN "CONTENT_PROVIDER"
  ELSE "UNKNOWN"

\* C21: when an observation is merged into an existing entry, the method of
\* the entry becomes the method of the observation if that method is not
\* UNKNOWN and stays what it was if it is UNKNOWN; no step turns a method
\* that is not UNKNOWN into UNKNOWN.
C21_MethodResolution ==
  [][ \A i \in DOMAIN merged_entries :
        /\ merged_entries'[i].val.frequency > merged_entries[i].val.frequency
           => merged_entries'[i].val.method =
                IF ObservedMethod # "UNKNOWN" THEN ObservedMethod
                ELSE merged_entries[i].val.method
        /\ merged_entries[i].val.method # "UNKNOWN"
           => merged_entries'[i].val.method # "UNKNOWN" ]_vars

\* a flow with method UNKNOWN was merged into the entry a POST flow made,
\* and the entry is still POST
C21_Witness ==
  /\ Len(dynamic_results) = 2
  /\ dynamic_results[1].method = "POST"
  /\ dynamic_results[2].method = "UNKNOWN"
  /\ Len(merged_entries) = 1
  /\ merged_entries[1].val.frequency = 2
  /\ merged_entries[1].val.method = "POST"

\* C22: a provider record whose accessible flag is false or absent, or
\* whose uri is empty, creates no entry and leaves every entry as it was.
C22_InaccessibleProviderIgnored ==
  [][ ( /\ Len(providers') > Len(providers)
        /\ ~ Last(providers').accessible \/ Last(providers').uri = <<>> )
      => merged_entries' = merged_entries ]_vars

\* an inaccessible provider with a uri was read after an entry was made,
\* and that entry is the only one
C22_Witness ==
  /\ pc = "component"
  /\ Len(providers) = 1
  /\ ~ providers[1].accessible
  /\ providers[1].uri # <<>>
  /\ Len(merged_entries) = 1
  /\ merged_entries[1].val.frequency = 1
  /\ merged_entries[1].val.sources = << "static" >>

RECURSIVE SumCounts(_, _)
\* the sum of the values of the function c over the set S
SumCounts(c, S) ==
  IF S = {} THEN 0
  ELSE c[CHOOSE x \in S : TRUE] + SumCounts(c, S \ { CHOOSE x \in S : TRUE })

Total(c) == SumCounts(c, DOMAIN c)

\* C23: in the catalog returned, total_entries is the number of entries, the
\* values of risk_distribution and those of method_distribution each sum to
\* total_entries, and source_distribution[s] is the number of entries whose
\* sources contain s, so that an entry with N distinct sources is counted N
\* times in all.
C23_MetadataConsistent ==
  pc = "done" =>
    /\ url_map.metadata.total_entries = Len(url_map.entries)
    /\ Total(url_map.metadata.risk_distribution) = url_map.metadata.total_entries
    /\ Total(url_map.metadata.method_distribution) = url_map.metadata.total_entries
    /\ \A s \in { "static", "dynamic", "component" } :
         Cardinality({ i \in DOMAIN url_map.entries :
                         s \in Range(url_map.entries[i].sources) })
           = IF s \in DOMAIN url_map.metadata.source_distribution
               THEN url_map.metadata.source_distribution[s] ELSE 0
    /\ DOMAIN url_map.metadata.source_distribution
         \subseteq { "static", "dynamic", "component" }
    /\ Total(url_map.metadata.source_distribution)
         = Total([ i \in DOMAIN url_map.entries |->
                     Cardinality(Range(url_map.entries[i].sources)) ])

\* a catalog of one entry with two distinct sources, counted once under each
C23_Witness ==
  /\ pc = "done"
  /\ Len(url_map.entries) = 1
  /\ Range(url_map.entries[1].sources) = { "static", "dynamic" }
  /\ url_map.metadata.total_entries = 1
  /\ url_map.metadata.source_distribution = [ s \in { "static", "dynamic" } |-> 1 ]

(***************************************************************************)
(* Order independence of the merge                                         *)
(***************************************************************************)
\* the records of the list l without their order: each record with the
\* number of times it occurs
BagOf(l) == [ r \in Range(l) |-> Cardinality({ i \in DOMAIN l : l[i] = r }) ]

\* what the three bags of records determine: for every signature the
\* number of records with it, their sources and their URLs
BagSummary(S, D, P) ==
  { [ signature     |-> s,
      frequency     |->
        SumCounts(S, { r \in DOMAIN S : SignatureOf(r.url, r.parameters) = s })
        + SumCounts(D, { f \in DOMAIN D : SignatureOf(f.url, <<>>) = s })
        + SumCounts(P, { p \in DOMAIN P :
                           SignatureOf(ContentScheme \o p.uri, <<>>) = s }),
      sources       |->
        { "static" : r \in { r \in DOMAIN S : SignatureOf(r.url, r.parameters) = s } }
        \cup { "dynamic" : f \in { f \in DOMAIN D : SignatureOf(f.url, <<>>) = s } }
        \cup { "component" : p \in { p \in DOMAIN P :
                                       SignatureOf(ContentScheme \o p.uri, <<>>) = s } },
      original_urls |->
        { r.url : r \in { r \in DOMAIN S : SignatureOf(r.url, r.parameters) = s } }
        \cup { f.url : f \in { f \in DOMAIN D : SignatureOf(f.url, <<>>) = s } }
        \cup { ContentScheme \o p.uri :
                 p \in { p \in DOMAIN P :
                           SignatureOf(ContentScheme \o p.uri, <<>>) = s } } ] :
      s \in { SignatureOf(r.url, r.parameters) : r \in DOMAIN S }
            \cup { SignatureOf(f.url, <<>>) : f \in DOMAIN D }
            \cup { SignatureOf(ContentScheme \o p.uri, <<>>) : p \in DOMAIN P } }

\* the signature, frequency, sources and URLs of every entry of the catalog
CatalogSummary ==
  { [ signature     |-> url_map.entries[i].signature,
      frequency     |-> url_map.entries[i].frequency,
      sources       |-> Range(url_map.entries[i].sources),
      original_urls |-> Range(url_map.entries[i].original_urls) ] :
      i \in DOMAIN url_map.entries }

\* C25: the signatures of the catalog returned and the frequency, the set
\* of sources and the set of URLs of each entry are determined by the three
\* lists taken as bags, so permuting the records inside a list changes none
\* of them.
C25_OrderIndependent ==
  pc = "done" =>
    CatalogSummary =
      BagSummary(BagOf(static_in), BagOf(dynamic_results),
                 BagOf(SelectSeq(providers,
                                 LAMBDA p : p.accessible /\ p.uri # <<>>)))

\* two different flows with one signature were merged, in this order; the
\* run that reads them in the other order gives the same entry
C25_Witness ==
  /\ pc = "done"
  /\ Len(dynamic_results) = 2
  /\ dynamic_results[1].url # dynamic_results[2].url
  /\ Len(url_map.entries) = 1
  /\ url_map.entries[1].frequency = 2
  /\ Range(url_map.entries[1].original_urls)
       = { dynamic_results[1].url, dynamic_results[2].url }

(***************************************************************************)
(* The arguments of the merge                                              *)
(***************************************************************************)
\* C28: after merge_static_dynamic_data every record of
\* static_results['urls'], its parameters list included, is what it was
\* when it was passed in.
C28_ArgumentsUnmodified ==
  static_urls = static_in

(***************************************************************************)
(* Properties of extract_path_parameters on numeric segments and on its    *)
(* own output                                                              *)
(***************************************************************************)
\* the all-digit segments of the path p that have a slash on both sides
DigitSegments(p) ==
  { SubSeq(p, i + 1, j - 1) :
      << i, j >> \in { x \in (DOMAIN p) \X (DOMAIN p) :
                         /\ x[1] + 1 < x[2]
                         /\ p[x[1]] = "/"
                         /\ p[x[2]] = "/"
                         /\ \A k \in (x[1] + 1) .. (x[2] - 1) : p[k] \in Digits } }

\* the path of u as the UUID loop leaves it (lines 72-76)
PathAfterUuids(u) ==
  extract_uuids(findall("uuid", PathOf(u)),
                [ path |-> PathOf(u), parameters |-> << >> ]).path

\* C24: every all-digit segment with a slash on both sides, in the path
\* left by the UUID replacement, is recorded as a numeric_id with its
\* digits, also when such segments are adjacent as in /1/2/3/; no such
\* segment remains in the path returned and none is recorded as an
\* alphanumeric_id.
C24_EveryNumericSegment ==
  ( extracted # << >> /\ urlparse(given_url).ok ) =>
    /\ \A d \in DigitSegments(PathAfterUuids(given_url)) :
         \E j \in DOMAIN extracted[1].parameters :
           extracted[1].parameters[j] = [ type |-> "numeric_id", value |-> d ]
    /\ DigitSegments(PathOf(extracted[1].url)) = {}
    /\ \A j \in DOMAIN extracted[1].parameters :
         extracted[1].parameters[j].type = "alphanumeric_id"
           => \E k \in DOMAIN extracted[1].parameters[j].value :
                extracted[1].parameters[j].value[k] \notin Digits

\* C29: extract_path_parameters applied to a URL it returned gives the same
\* URL and no parameter.
C29_ExtractIdempotent ==
  Len(extracted) >= 2 =>
    /\ extracted[2].url = extracted[1].url
    /\ extracted[2].parameters = << >>

(***************************************************************************)
(* Properties of the static pipeline                                       *)
(***************************************************************************)
\* C27: for the record merge_static_results built from a URL, the entry
\* that merge_static_dynamic_data creates has the path of the URL the
\* extractor returned: replacing the attached parameter values changes
\* nothing else in that path.
C27_SubstitutionAgrees ==
  ( static_map.called /\ ~ static_map.raised ) =>
    static_map.entries[1].path = PathOf(static_results.urls[1].url)

(***************************************************************************)
(* Properties of the TaskManager                                           *)
(***************************************************************************)
\* every task listed in the subtasks of p is COMPLETED, in self.tasks d
AllListedCompleted(d, p) ==
  \A i \in DOMAIN d[p].subtasks :
    /\ d[p].subtasks[i] \in DOMAIN d
    /\ d[d[p].subtasks[i]].status = "completed"

\* C26: complete_task(t) for a task t whose parent p exists leaves t
\* COMPLETED, and leaves p COMPLETED when every task listed in p.subtasks is
\* then COMPLETED; when one of them is PENDING, IN_PROGRESS or FAILED the
\* call does not touch p.
C26_ParentAutoCompletion ==
  [][ \A t \in DOMAIN tasks : \A p \in DOMAIN tasks :
        ( /\ calls' = calls + 1
          /\ last_call' = [ op |-> "complete_task", task_id |-> t ]
          /\ tasks[t].parent_task_id = p )
        => /\ tasks'[t].status = "completed"
           /\ IF AllListedCompleted(tasks', p)
                THEN tasks'[p].status = "completed" /\ tasks'[p].completed_at
                ELSE p # t => tasks'[p] = tasks[p] ]_vars

\* the second of the two listed subtasks was completed last and the parent,
\* never started, completed or failed by a call of its own, is COMPLETED
C26_Witness ==
  /\ calls = 5
  /\ last_call = [ op |-> "complete_task", task_id |-> "subtask_002" ]
  /\ DOMAIN tasks = TaskIds
  /\ tasks["task_001"].subtasks = << "subtask_001", "subtask_002" >>
  /\ tasks["subtask_001"].parent_task_id = "task_001"
  /\ tasks["subtask_002"].parent_task_id = "task_001"
  /\ tasks["subtask_001"].status = "completed"
  /\ tasks["subtask_002"].status = "completed"
  /\ tasks["task_001"].status = "completed"

\* C30: every task whose parent_task_id names a task of the manager is
\* listed in the subtasks of that task, and no subtasks list holds an id
\* twice.
C30_ParentChildConsistent ==
  \A t \in DOMAIN tasks :
    /\ tasks[t].parent_task_id \in DOMAIN tasks
       => \E i \in DOMAIN tasks[tasks[t].parent_task_id].subtasks :
            tasks[tasks[t].parent_task_id].subtasks[i] = t
    /\ \A i, j \in DOMAIN tasks[t].subtasks :
         tasks[t].subtasks[i] = tasks[t].subtasks[j] => i = j

=============================================================================
